---- MODULE Spec2Model ----
(***************************************************************************)
(* Rabbits-Evolution-Simulation: the discrete-event engine of              *)
(* sim_essentials.py driven by the step loop of visualization.py.          *)
(*                                                                         *)
(* Every agent (Rabbit, Food, RabbitFactory, FoodFactory) is a simpy       *)
(* process.  The event queue holds (time, priority, insertion order)       *)
(* entries; one step of the driver pops the first entry and runs the       *)
(* owning process up to its next yield.  Objects are kept in stores        *)
(* indexed by Entity.id, so that a reference held by a rabbit              *)
(* (chosen_partner, nearest_food) still denotes the object after the       *)
(* object has left the live lists env.rabbits / env.food.                  *)
(*                                                                         *)
(* Reals are modelled by integers: time_factor is 1, the exponential       *)
(* inter-arrival sample is drawn from whole ticks, nutrition is drawn      *)
(* from the even integers of [min_nutrition, max_nutrition] so that the    *)
(* halving is exact, and a mutated trait is drawn from the integers of     *)
(* the interval random.uniform samples.  The runs are those in which the   *)
(* 'q' key (end_simulation) is not pressed.                                *)
(***************************************************************************)
EXTENDS Integers, Sequences, FiniteSets, TLC

VARIABLES
    settings,                   \* GlobalSettings.settings (read once, immutable)
    grid_size,                  \* Environment.grid_size
    count,                      \* Entity.count
    factories,                  \* id -> class name of the factory objects
    rabbit_objs,                \* id -> Rabbit object (alive or not)
    food_objs,                  \* id -> Food object (in env.food or not)
    rabbits,                    \* Environment.rabbits (list of ids)
    food,                       \* Environment.food (list of ids)
    removed_rabbits,            \* Environment.removed_rabbits
    eaten_food,                 \* Environment.eaten_food
    decayed_food,               \* Environment.decayed_food
    queue,                      \* simpy event queue, sorted
    now,                        \* simpy_env.now
    best_stats,                 \* RabbitStatsCollector.best_stats
    current_step_rabbit_stats,  \* RabbitStatsCollector.current_step_rabbit_stats
    hung,                       \* a reject-and-retry loop that cannot end was entered
    ev,                         \* what the last resumed process did (observation)
    pc,                         \* position of the main program / driver loop
    is_simulation_running,      \* SimulationVisualization.is_simulation_running
    error,                      \* exception that left env.step(), or "none"
    call                        \* a method called on its own: arguments and result

vars == << settings, grid_size, count, factories, rabbit_objs, food_objs, rabbits,
           food, removed_rabbits, eaten_food, decayed_food, queue, now, best_stats,
           current_step_rabbit_stats, hung, ev, pc, is_simulation_running, error,
           call >>

----------------------------------------------------------------------------
(* Bounds of the model *)

MaxGrid == 2            \* grid_size ranges over 1..MaxGrid
MaxSpeed == 2           \* base_speed ranges over 1..MaxSpeed
MaxLifespan == 4        \* food lifespan ranges over 1..MaxLifespan
MaxStartRabbits == 2    \* start_rabbits_count ranges over 0..MaxStartRabbits
MaxStartFood == 1       \* start_food_count ranges over 0..MaxStartFood
MaxLoad == 3            \* Load of the settings, at most
MaxEntities == 7        \* no step is taken once Entity.count reaches this
MaxTrait == 11          \* a parent's trait, when breed is called on its own, at most
SimDuration == 4        \* sim_duration handed to SimulationVisualization.run

(* Configured values (simulation_settings.json) *)

time_factor == 1
scan_radius == 1
base_hunger_factor == 1
hunger_to_breed == 2
hunger_fatigue == 4
base_breed_timeout == 2
breeding_reset_speed == 1
min_nutrition == 4
max_nutrition == 4
base_hunger == 0

None == -1
Infinity == 999         \* float('inf')

URGENT == 0
NORMAL == 1

move_locations ==
    << <<0, 1>>, <<0, -1>>, <<1, 0>>, <<-1, 0>>,
       <<1, 1>>, <<-1, -1>>, <<1, -1>>, <<-1, 1>> >>

----------------------------------------------------------------------------
(* The world: every variable a resumed process can touch *)

World ==
    [ settings |-> settings, grid_size |-> grid_size, count |-> count,
      factories |-> factories, rabbit_objs |-> rabbit_objs, food_objs |-> food_objs,
      rabbits |-> rabbits, food |-> food, removed_rabbits |-> removed_rabbits,
      eaten_food |-> eaten_food, decayed_food |-> decayed_food, queue |-> queue,
      now |-> now, best_stats |-> best_stats,
      current_step_rabbit_stats |-> current_step_rabbit_stats,
      hung |-> hung, ev |-> ev ]

Commit(w) ==
    /\ settings' = w.settings
    /\ grid_size' = w.grid_size
    /\ count' = w.count
    /\ factories' = w.factories
    /\ rabbit_objs' = w.rabbit_objs
    /\ food_objs' = w.food_objs
    /\ rabbits' = w.rabbits
    /\ food' = w.food
    /\ removed_rabbits' = w.removed_rabbits
    /\ eaten_food' = w.eaten_food
    /\ decayed_food' = w.decayed_food
    /\ queue' = w.queue
    /\ now' = w.now
    /\ best_stats' = w.best_stats
    /\ current_step_rabbit_stats' = w.current_step_rabbit_stats
    /\ hung' = w.hung
    /\ ev' = w.ev

NoEv ==
    [ op |-> "none", self |-> None, target |-> None, fresh |-> FALSE,
      fed |-> FALSE, bt |-> 0, pfed |-> FALSE, pbt |-> 0, palive |-> FALSE,
      nutrition |-> 0, report |-> None, report_alive |-> FALSE,
      sought |-> "none", chosen |-> None, origin |-> << >>,
      best_move |-> << >> ]

----------------------------------------------------------------------------
(* Sequences *)

Abs(n) == IF n < 0 THEN -n ELSE n

InSeq(x, s) == \E i \in 1..Len(s) : s[i] = x

\* list.remove(x) for an x that is in the list: the first occurrence goes
list_remove(s, x) ==
    LET i == CHOOSE k \in 1..Len(s) : s[k] = x /\ \A j \in 1..(k - 1) : s[j] # x
    IN  SubSeq(s, 1, i - 1) \o SubSeq(s, i + 1, Len(s))

----------------------------------------------------------------------------
(* simpy: scheduling.  An entry goes behind every entry of the same or an   *)
(* earlier (time, priority): the heap orders by (time, priority, eid).  The *)
(* field at records the time at which the entry was scheduled.              *)

schedule(q, e) ==
    LET k == Cardinality({ i \in 1..Len(q) :
                 \/ q[i].time < e.time
                 \/ (q[i].time = e.time /\ q[i].priority <= e.priority) })
    IN  SubSeq(q, 1, k) \o << e >> \o SubSeq(q, k + 1, Len(q))

\* a variant that starts a life-cycle one time unit after its registration
process_later(w, id) ==
    [w EXCEPT !.queue = schedule(@,
        [time |-> w.now + 1, priority |-> URGENT, proc |-> id, kind |-> "Initialize",
         at |-> w.now])]

\* env.process(self.lifetime()): an Initialize event, urgent, due now
process(w, id) ==
    [w EXCEPT !.queue = schedule(@,
        [time |-> w.now, priority |-> URGENT, proc |-> id, kind |-> "Initialize",
         at |-> w.now])]

\* env.timeout(delay): a Timeout event the yielding process waits for
timeout(w, id, delay) ==
    [w EXCEPT !.queue = schedule(@,
        [time |-> w.now + delay, priority |-> NORMAL, proc |-> id, kind |-> "Timeout",
         at |-> w.now])]

\* the generator returned: the Process event itself is triggered
process_ended(w, id) ==
    [w EXCEPT !.queue = schedule(@,
        [time |-> w.now, priority |-> NORMAL, proc |-> id, kind |-> "Ended",
         at |-> w.now])]

\* the generator raised: the Process event fails and is scheduled
process_failed(w, id) ==
    [w EXCEPT !.queue = schedule(@,
        [time |-> w.now, priority |-> NORMAL, proc |-> id, kind |-> "Failed",
         at |-> w.now])]

----------------------------------------------------------------------------
(* Entity *)

manhattan_distance_between(first, second) ==
    Abs(first[1] - second[1]) + Abs(first[2] - second[2])

\* a variant that looks at the rabbits only
is_cell_occupied_by_rabbit(w, x, y) ==
    \E i \in 1..Len(w.rabbits) :
        w.rabbit_objs[w.rabbits[i]].x = x /\ w.rabbit_objs[w.rabbits[i]].y = y

is_cell_occupied(w, x, y) ==
    \/ \E i \in 1..Len(w.rabbits) :
          w.rabbit_objs[w.rabbits[i]].x = x /\ w.rabbit_objs[w.rabbits[i]].y = y
    \/ \E i \in 1..Len(w.food) :
          w.food_objs[w.food[i]].x = x /\ w.food_objs[w.food[i]].y = y

----------------------------------------------------------------------------
(* Rabbit *)

\* Rabbit.__init__ (with Entity.__init__): the id, the registered life-cycle
\* and the object; deaths, late_reports, ticks and meals only observe the
\* object.
Rabbit(w, x, y, t_scan_radius, t_base_hunger, t_base_hunger_factor, t_hunger_fatigue, t_hunger_to_breed, t_base_breed_timeout, t_breeding_reset_speed, t_speed) ==
    LET id == w.count
        w1 == process([w EXCEPT !.count = @ + 1], id)
        obj == [ x |-> x, y |-> y, scan_radius |-> t_scan_radius,
                 base_hunger |-> t_base_hunger, hunger |-> t_base_hunger,
                 base_hunger_factor |-> t_base_hunger_factor,
                 hunger_to_breed |-> t_hunger_to_breed,
                 hunger_fatigue |-> t_hunger_fatigue,
                 base_breed_timeout |-> t_base_breed_timeout,
                 breeding_reset_speed |-> t_breeding_reset_speed,
                 breeding_timeout |-> 0, speed |-> t_speed, age |-> w.now,
                 breeding_count |-> 0, is_alive |-> TRUE,
                 moving_towards |-> FALSE, chosen_partner |-> None,
                 nearest_food |-> None, born |-> w.now, deaths |-> 0,
                 late_reports |-> 0, ticks |-> 0, meals |-> 0 ]
    IN  [w1 EXCEPT !.rabbit_objs = @ @@ (id :> obj)]

add_rabbit(w, id) == [w EXCEPT !.rabbits = Append(@, id)]

is_fed(me) == me.hunger <= me.hunger_to_breed

can_breed_with(partner) == is_fed(partner) /\ partner.breeding_timeout <= 0

find_potential_partners(w, r) ==
    LET me == w.rabbit_objs[r]
        Near(p) == /\ p # r
                   /\ Abs(me.x - w.rabbit_objs[p].x) <= me.scan_radius
                   /\ Abs(me.y - w.rabbit_objs[p].y) <= me.scan_radius
    IN  SelectSeq(w.rabbits, Near)

\* a variant that takes the last suitable partner of the list
choose_partner_last(w, potential_partners) ==
    LET Ok(p) == can_breed_with(w.rabbit_objs[p])
        ok == SelectSeq(potential_partners, Ok)
    IN  IF ok = << >> THEN None ELSE ok[Len(ok)]

choose_partner(w, potential_partners) ==
    LET Ok(p) == can_breed_with(w.rabbit_objs[p])
        ok == SelectSeq(potential_partners, Ok)
    IN  IF ok = << >> THEN None ELSE Head(ok)

find_food(w, r) ==
    LET me == w.rabbit_objs[r]
        Near(f) == /\ Abs(me.x - w.food_objs[f].x) <= me.scan_radius
                   /\ Abs(me.y - w.food_objs[f].y) <= me.scan_radius
    IN  SelectSeq(w.food, Near)

\* a variant that takes the last of the nearest
choose_food_last(w, r, nearby_food) ==
    LET me == w.rabbit_objs[r]
        d(i) == manhattan_distance_between(
                    << me.x, me.y >>,
                    << w.food_objs[nearby_food[i]].x, w.food_objs[nearby_food[i]].y >>)
        k == CHOOSE i \in 1..Len(nearby_food) :
                 \A j \in 1..Len(nearby_food) : d(i) < d(j) \/ (d(i) = d(j) /\ i >= j)
    IN  nearby_food[k]

\* min(nearby_food, key=...): the first of the nearest
choose_food(w, r, nearby_food) ==
    LET me == w.rabbit_objs[r]
        d(i) == manhattan_distance_between(
                    << me.x, me.y >>,
                    << w.food_objs[nearby_food[i]].x, w.food_objs[nearby_food[i]].y >>)
        k == CHOOSE i \in 1..Len(nearby_food) :
                 \A j \in 1..Len(nearby_food) : d(i) < d(j) \/ (d(i) = d(j) /\ i <= j)
    IN  nearby_food[k]

\* a variant that prefers the farther cell
improves_reversed(new_distance, min_distance) == new_distance > min_distance

\* the comparison of find_best_move_towards
improves(new_distance, min_distance) == new_distance < min_distance

RECURSIVE best_move_from(_, _, _, _, _, _)
best_move_from(i, best_move, min_distance, me, other_x, other_y) ==
    IF i > Len(move_locations) THEN best_move
    ELSE LET move == move_locations[i]
             new_distance == manhattan_distance_between(
                 << me.x + move[1] * me.speed, me.y + move[2] * me.speed >>,
                 << other_x, other_y >>)
         IN  IF improves(new_distance, min_distance)
             THEN best_move_from(i + 1, move, new_distance, me, other_x, other_y)
             ELSE best_move_from(i + 1, best_move, min_distance, me, other_x, other_y)

\* the returned move; the caller records moving_towards = True
find_best_move_towards(me, other_x, other_y) ==
    best_move_from(1, << 0, 0 >>,
        manhattan_distance_between(<< me.x, me.y >>, << other_x, other_y >>),
        me, other_x, other_y)

\* a variant that reverses both directions when either leaves the grid
adjust_move_both(g, new_x, new_y, move_dx, move_dy) ==
    IF new_x < 0 \/ new_x >= g \/ new_y < 0 \/ new_y >= g
    THEN << -move_dx, -move_dy >>
    ELSE << move_dx, move_dy >>

adjust_move_if_outside_grid(g, new_x, new_y, move_dx, move_dy) ==
    << IF new_x < 0 \/ new_x >= g THEN -move_dx ELSE move_dx,
       IF new_y < 0 \/ new_y >= g THEN -move_dy ELSE move_dy >>

\* the partner move_to_breed looks at, or None
candidate(w, potential_partners) ==
    IF potential_partners = << >> THEN None ELSE choose_partner(w, potential_partners)

\* result: the world, the move, and whether a partner was chosen in this call
approach(w, r, chosen_partner) ==
    IF chosen_partner # None /\ can_breed_with(w.rabbit_objs[chosen_partner])
    THEN [ w |-> [w EXCEPT !.rabbit_objs[r].chosen_partner = chosen_partner,
                           !.rabbit_objs[r].moving_towards = TRUE,
                           !.ev.sought = "partner", !.ev.chosen = chosen_partner],
           move |-> find_best_move_towards(w.rabbit_objs[r],
                        w.rabbit_objs[chosen_partner].x,
                        w.rabbit_objs[chosen_partner].y),
           fresh_partner |-> TRUE, fresh_food |-> FALSE ]
    ELSE [ w |-> [w EXCEPT !.ev.sought = "partner"], move |-> << 0, 0 >>,
           fresh_partner |-> FALSE, fresh_food |-> FALSE ]

move_to_breed(w, r) == approach(w, r, candidate(w, find_potential_partners(w, r)))

\* result: the world, the move, and whether a food was chosen in this call
go_to_food(w, r, nearest_food) ==
    [ w |-> [w EXCEPT !.rabbit_objs[r].nearest_food = nearest_food,
                      !.rabbit_objs[r].moving_towards = TRUE,
                      !.ev.sought = "food", !.ev.chosen = nearest_food],
      move |-> find_best_move_towards(w.rabbit_objs[r],
                   w.food_objs[nearest_food].x, w.food_objs[nearest_food].y),
      fresh_partner |-> FALSE, fresh_food |-> TRUE ]

look_for_food(w, r, nearby_food) ==
    IF nearby_food # << >>
    THEN go_to_food(w, r, choose_food(w, r, nearby_food))
    ELSE [ w |-> [w EXCEPT !.rabbit_objs[r].nearest_food = None,
                           !.ev.sought = "food"],
           move |-> << 0, 0 >>, fresh_partner |-> FALSE, fresh_food |-> FALSE ]

move_towards_food(w, r) == look_for_food(w, r, find_food(w, r))

\* the branch of handle_movement: breed when fed and off cooldown
seeks_partner(me) == is_fed(me) /\ me.breeding_timeout <= 0

\* the breeding timeout runs down in the branch that looks for food
cool_down(w, r) ==
    [w EXCEPT !.rabbit_objs[r].breeding_timeout =
        IF @ > 0 THEN @ - w.rabbit_objs[r].breeding_reset_speed ELSE @]

\* the two branches of handle_movement
find_move(w, r) ==
    IF seeks_partner(w.rabbit_objs[r]) THEN move_to_breed(w, r)
    ELSE move_towards_food(cool_down(w, r), r)

\* a variant without the random move
made_move_stays(move, choice) == move

\* choice indexes move_locations for random.choice, used when no move was found
made_move(move, choice) == IF move = << 0, 0 >> THEN move_locations[choice] ELSE move

\* the adjusted move
adjusted(g, x, y, m) == adjust_move_if_outside_grid(g, x + m[1], y + m[2], m[1], m[2])

\* self.x, self.y = the returned cell
move_by(res, r, m) ==
    [res EXCEPT !.w.rabbit_objs[r].x = @ + m[1], !.w.rabbit_objs[r].y = @ + m[2],
                !.w.ev.origin = << res.w.rabbit_objs[r].x, res.w.rabbit_objs[r].y >>,
                !.w.ev.best_move = res.move]

\* the rest of handle_movement, from the result of its branch
move_from(res, g, x, y, r, choice) ==
    move_by(res, r, adjusted(g, x, y, made_move(res.move, choice)))

handle_movement(w, r, choice) ==
    move_from(find_move(w, r), w.grid_size, w.rabbit_objs[r].x, w.rabbit_objs[r].y,
              r, choice)

reached_entity(me, entity_x, entity_y) == << me.x, me.y >> = << entity_x, entity_y >>

calculate_breeding_timeout(me) ==
    LET hunger_bonus == IF -me.hunger > 0 THEN -me.hunger ELSE 0
        timeout_reduction == hunger_bonus \div 2
    IN  me.base_breed_timeout - timeout_reduction

\* a variant that mutates by up to 20% of the mean
inherit_with_wide_mutation(first_trait, second_trait) ==
    LET s == first_trait + second_trait
        lo == IF s >= 0 THEN 8 * s ELSE 12 * s
        hi == IF s >= 0 THEN 12 * s ELSE 8 * s
    IN  { t \in (lo \div 20)..((hi \div 20) + 1) : lo <= 20 * t /\ 20 * t <= hi }

\* the integers random.uniform(-0.1 * m, 0.1 * m) + m can return, m the mean
inherit_with_mutation(first_trait, second_trait) ==
    LET s == first_trait + second_trait
        lo == IF s >= 0 THEN 9 * s ELSE 11 * s
        hi == IF s >= 0 THEN 11 * s ELSE 9 * s
    IN  { t \in (lo \div 20)..((hi \div 20) + 1) : lo <= 20 * t /\ 20 * t <= hi }

\* the offspring's traits, one draw per trait
Traits(w, r, partner) ==
    LET a == w.rabbit_objs[r]
        b == w.rabbit_objs[partner]
    IN  [ scan_radius : inherit_with_mutation(a.scan_radius, b.scan_radius),
          base_hunger : inherit_with_mutation(a.base_hunger, b.base_hunger),
          base_hunger_factor :
              inherit_with_mutation(a.base_hunger_factor, b.base_hunger_factor),
          hunger_fatigue : inherit_with_mutation(a.hunger_fatigue, b.hunger_fatigue),
          hunger_to_breed : inherit_with_mutation(a.hunger_to_breed, b.hunger_to_breed),
          base_breed_timeout :
              inherit_with_mutation(a.base_breed_timeout, b.base_breed_timeout),
          breeding_reset_speed :
              inherit_with_mutation(a.breeding_reset_speed, b.breeding_reset_speed) ]

\* a variant that counts the breeding for the partner as well
breed_counts_both(w, r, partner, tr) ==
    LET w1 == [w EXCEPT !.rabbit_objs[r].breeding_timeout =
                            calculate_breeding_timeout(w.rabbit_objs[r])]
        w2 == [w1 EXCEPT !.rabbit_objs[partner].breeding_timeout =
                            calculate_breeding_timeout(w1.rabbit_objs[partner])]
        w3 == Rabbit(w2, w2.rabbit_objs[r].x, w2.rabbit_objs[r].y, tr.scan_radius,
                     tr.base_hunger, tr.base_hunger_factor, tr.hunger_fatigue,
                     tr.hunger_to_breed, tr.base_breed_timeout,
                     tr.breeding_reset_speed, w.settings.base_speed)
        w4 == add_rabbit(w3, w2.count)
    IN  [w4 EXCEPT !.rabbit_objs[r].breeding_count = @ + 1,
                   !.rabbit_objs[partner].breeding_count = @ + 1]

\* a variant that leaves the partner's breeding_timeout as it was
breed_initiator_only(w, r, partner, tr) ==
    LET w2 == [w EXCEPT !.rabbit_objs[r].breeding_timeout =
                            calculate_breeding_timeout(w.rabbit_objs[r])]
        w3 == Rabbit(w2, w2.rabbit_objs[r].x, w2.rabbit_objs[r].y, tr.scan_radius,
                     tr.base_hunger, tr.base_hunger_factor, tr.hunger_fatigue,
                     tr.hunger_to_breed, tr.base_breed_timeout,
                     tr.breeding_reset_speed, w.settings.base_speed)
        w4 == add_rabbit(w3, w2.count)
    IN  [w4 EXCEPT !.rabbit_objs[r].breeding_count = @ + 1]

breed(w, r, partner, tr) ==
    LET w1 == [w EXCEPT !.rabbit_objs[r].breeding_timeout =
                            calculate_breeding_timeout(w.rabbit_objs[r])]
        w2 == [w1 EXCEPT !.rabbit_objs[partner].breeding_timeout =
                            calculate_breeding_timeout(w1.rabbit_objs[partner])]
        w3 == Rabbit(w2, w2.rabbit_objs[r].x, w2.rabbit_objs[r].y, tr.scan_radius,
                     tr.base_hunger, tr.base_hunger_factor, tr.hunger_fatigue,
                     tr.hunger_to_breed, tr.base_breed_timeout,
                     tr.breeding_reset_speed, w.settings.base_speed)
        w4 == add_rabbit(w3, w2.count)
    IN  [w4 EXCEPT !.rabbit_objs[r].breeding_count = @ + 1]

\* start_breeding_process: breed, then forget the partner
start_breeding_process(w, r, tr, fresh) ==
    LET me == w.rabbit_objs[r]
        partner == me.chosen_partner
        w1 == breed(w, r, partner, tr)
    IN  [w1 EXCEPT !.rabbit_objs[r].chosen_partner = None,
                   !.ev = [ @ EXCEPT !.op = "breed", !.self = r, !.target = partner,
                                !.fresh = fresh, !.fed = is_fed(me),
                                !.bt = me.breeding_timeout,
                                !.pfed = is_fed(w.rabbit_objs[partner]),
                                !.pbt = w.rabbit_objs[partner].breeding_timeout,
                                !.palive = InSeq(partner, w.rabbits) ]]

\* a variant that keeps the reference to the eaten food
consume_food_remembers(w, r, f, fresh) ==
    IF ~InSeq(f, w.food)
    THEN [w EXCEPT !.rabbit_objs[r].hunger = @ - w.food_objs[f].nutrition,
                   !.ev = [ @ EXCEPT !.op = "ValueError", !.self = r,
                                !.target = f, !.fresh = fresh,
                                !.fed = is_fed(w.rabbit_objs[r]),
                                !.nutrition = w.food_objs[f].nutrition ]]
    ELSE [w EXCEPT !.rabbit_objs[r].hunger = @ - w.food_objs[f].nutrition,
                   !.food = list_remove(@, f),
                   !.food_objs[f].eaten = @ + 1,
                   !.eaten_food = @ + 1,
                   !.ev = [ @ EXCEPT !.op = "consume", !.self = r, !.target = f,
                                !.fresh = fresh,
                                !.fed = is_fed(w.rabbit_objs[r]),
                                !.nutrition = w.food_objs[f].nutrition ]]

\* a variant that leaves the eaten food in env.food
consume_food_keeps(w, r, f, fresh) ==
    [w EXCEPT !.rabbit_objs[r].hunger = @ - w.food_objs[f].nutrition,
              !.food_objs[f].eaten = @ + 1,
              !.rabbit_objs[r].nearest_food = None,
              !.eaten_food = @ + 1,
              !.ev = [ @ EXCEPT !.op = "consume", !.self = r, !.target = f,
                           !.fresh = fresh, !.fed = is_fed(w.rabbit_objs[r]),
                           !.nutrition = w.food_objs[f].nutrition ]]

\* consume_food: the hunger drops first; list.remove raises ValueError for a
\* food that is not in env.food, and the rest of the method is not run
consume_food(w, r, f, fresh) ==
    LET w1 == [w EXCEPT !.rabbit_objs[r].hunger = @ - w.food_objs[f].nutrition]
    IN  IF ~InSeq(f, w.food)
        THEN [w1 EXCEPT !.ev = [ @ EXCEPT !.op = "ValueError", !.self = r,
                                     !.target = f, !.fresh = fresh,
                                     !.fed = is_fed(w.rabbit_objs[r]),
                                     !.nutrition = w.food_objs[f].nutrition ]]
        ELSE [w1 EXCEPT !.food = list_remove(@, f),
                        !.food_objs[f].eaten = @ + 1,
                        !.rabbit_objs[r].meals = @ + 1,
                        !.rabbit_objs[r].nearest_food = None,
                        !.eaten_food = @ + 1,
                        !.ev = [ @ EXCEPT !.op = "consume", !.self = r, !.target = f,
                                     !.fresh = fresh,
                                     !.fed = is_fed(w.rabbit_objs[r]),
                                     !.nutrition = w.food_objs[f].nutrition ]]

\* moving_towards = False follows a consumption that did not raise
after_consume(w, r) ==
    IF w.ev.op = "ValueError" THEN w ELSE [w EXCEPT !.rabbit_objs[r].moving_towards = FALSE]

\* the first test of handle_interaction: the chosen partner is reached
breeds(w, me) ==
    /\ me.moving_towards
    /\ me.chosen_partner # None
    /\ reached_entity(me, w.rabbit_objs[me.chosen_partner].x,
                          w.rabbit_objs[me.chosen_partner].y)

\* the second test: the nearest food is reached
eats(w, me) ==
    /\ me.moving_towards
    /\ me.nearest_food # None
    /\ reached_entity(me, w.food_objs[me.nearest_food].x, w.food_objs[me.nearest_food].y)

handle_interaction(w, r, tr, fresh_partner, fresh_food) ==
    IF breeds(w, w.rabbit_objs[r])
    THEN [ start_breeding_process(w, r, tr, fresh_partner)
              EXCEPT !.rabbit_objs[r].moving_towards = FALSE ]
    ELSE IF eats(w, w.rabbit_objs[r])
    THEN after_consume(consume_food(w, r, w.rabbit_objs[r].nearest_food, fresh_food), r)
    ELSE w

\* a variant that gives the id of the removed rabbit back to the counter
remove_rabbit_frees_id(w, r) ==
    IF InSeq(r, w.rabbits)
    THEN [w EXCEPT !.rabbits = list_remove(@, r),
                   !.rabbit_objs[r].is_alive = FALSE,
                   !.rabbit_objs[r].deaths = @ + 1,
                   !.removed_rabbits = @ + 1,
                   !.count = @ - 1]
    ELSE w

\* a variant that leaves is_alive as it was
remove_rabbit_unflagged(w, r) ==
    IF InSeq(r, w.rabbits)
    THEN [w EXCEPT !.rabbits = list_remove(@, r),
                   !.rabbit_objs[r].deaths = @ + 1,
                   !.removed_rabbits = @ + 1]
    ELSE w

remove_rabbit(w, r) ==
    IF InSeq(r, w.rabbits)
    THEN [w EXCEPT !.rabbits = list_remove(@, r),
                   !.rabbit_objs[r].is_alive = FALSE,
                   !.rabbit_objs[r].deaths = @ + 1,
                   !.removed_rabbits = @ + 1]
    ELSE w

\* a variant that lets a rabbit live with hunger = hunger_fatigue
update_hunger_strict(w, r) ==
    LET w1 == [w EXCEPT !.rabbit_objs[r].hunger = @ + w.rabbit_objs[r].base_hunger_factor]
    IN  IF w1.rabbit_objs[r].hunger > w1.rabbit_objs[r].hunger_fatigue
        THEN remove_rabbit(w1, r)
        ELSE w1

\* a variant that tests the hunger before it grows
update_hunger_late(w, r) ==
    LET w1 == [w EXCEPT !.rabbit_objs[r].hunger = @ + w.rabbit_objs[r].base_hunger_factor]
    IN  IF w.rabbit_objs[r].hunger >= w.rabbit_objs[r].hunger_fatigue
        THEN remove_rabbit(w1, r)
        ELSE w1

update_hunger(w, r) ==
    LET w1 == [w EXCEPT !.rabbit_objs[r].hunger = @ + w.rabbit_objs[r].base_hunger_factor]
    IN  IF w1.rabbit_objs[r].hunger >= w1.rabbit_objs[r].hunger_fatigue
        THEN remove_rabbit(w1, r)
        ELSE w1

----------------------------------------------------------------------------
(* RabbitStatsCollector *)

\* a variant that also takes the record over on equal hunger
update_best_on_tie(b, id, me) ==
    LET b1 == IF me.hunger <= b.lowest_hunger
              THEN [b EXCEPT !.lowest_hunger = me.hunger, !.lowest_hunger_rabbit_id = id]
              ELSE b
        b2 == IF me.age > b1.longest_life
              THEN [b1 EXCEPT !.longest_life = me.age, !.longest_life_rabbit_id = id]
              ELSE b1
    IN  IF me.breeding_count > b2.max_breeding_count
        THEN [b2 EXCEPT !.max_breeding_count = me.breeding_count,
                        !.max_breeding_count_rabbit_id = id]
        ELSE b2

update_best_rabbit_stats(b, id, me) ==
    LET b1 == IF me.hunger < b.lowest_hunger
              THEN [b EXCEPT !.lowest_hunger = me.hunger, !.lowest_hunger_rabbit_id = id]
              ELSE b
        b2 == IF me.age > b1.longest_life
              THEN [b1 EXCEPT !.longest_life = me.age, !.longest_life_rabbit_id = id]
              ELSE b1
    IN  IF me.breeding_count > b2.max_breeding_count
        THEN [b2 EXCEPT !.max_breeding_count = me.breeding_count,
                        !.max_breeding_count_rabbit_id = id]
        ELSE b2

Min(a, b) == IF a < b THEN a ELSE b
Max(a, b) == IF a > b THEN a ELSE b

update_current_step_rabbit_stats(c, me) ==
    [ scan_radius |-> Max(c.scan_radius, me.scan_radius),
      base_hunger |-> Min(c.base_hunger, me.hunger),
      base_hunger_factor |-> Min(c.base_hunger_factor, me.base_hunger_factor),
      hunger_to_breed |-> Min(c.hunger_to_breed, me.hunger_to_breed),
      hunger_fatigue |-> Max(c.hunger_fatigue, me.hunger_fatigue),
      base_breed_timeout |-> Min(c.base_breed_timeout, me.base_breed_timeout),
      breeding_reset_speed |-> Max(c.breeding_reset_speed, me.breeding_reset_speed),
      speed |-> Max(c.speed, me.speed) ]

\* the two calls that follow the yield of Rabbit.lifetime
report(w, r) ==
    LET me == w.rabbit_objs[r]
    IN  [w EXCEPT !.best_stats = update_best_rabbit_stats(@, r, me),
                  !.current_step_rabbit_stats = update_current_step_rabbit_stats(@, me),
                  !.rabbit_objs[r].late_reports =
                      IF me.is_alive THEN @ ELSE @ + 1,
                  !.ev = [ @ EXCEPT !.report = r, !.report_alive = me.is_alive ]]

----------------------------------------------------------------------------
(* Rabbit.lifetime *)

NoTraits ==
    [ scan_radius |-> 0, base_hunger |-> 0, base_hunger_factor |-> 0,
      hunger_fatigue |-> 0, hunger_to_breed |-> 0, base_breed_timeout |-> 0,
      breeding_reset_speed |-> 0 ]

\* from update_hunger to the yield; an exception raised before ends the process
finish_tick(w, r) ==
    IF w.ev.op = "ValueError" THEN process_failed(w, r)
    ELSE timeout([update_hunger(w, r) EXCEPT !.rabbit_objs[r].age = @ + w.now,
                                             !.rabbit_objs[r].ticks = @ + 1],
                 r, time_factor)

\* the traits inherit_with_mutation can draw for the offspring of this pass
offspring_traits(w, r) ==
    IF breeds(w, w.rabbit_objs[r])
    THEN Traits(w, r, w.rabbit_objs[r].chosen_partner)
    ELSE { NoTraits }

\* one pass of the loop body, for every outcome of the random draws
lifetime_body(w, r) ==
    UNION { UNION { { finish_tick(w2, r) :
                        w2 \in { handle_interaction(mv.w, r, tr, mv.fresh_partner,
                                                    mv.fresh_food) } }
                    : tr \in offspring_traits(mv.w, r) }
            : mv \in { handle_movement(w, r, choice) :
                         choice \in 1..Len(move_locations) } }

\* while self.is_alive
loop_head(w, r) ==
    IF w.rabbit_objs[r].is_alive THEN lifetime_body(w, r) ELSE { process_ended(w, r) }

\* the process is resumed by its event e: the worlds it can leave behind
rabbit_lifetime(w, e) ==
    loop_head(IF e.kind = "Timeout" THEN report(w, e.proc) ELSE w, e.proc)

----------------------------------------------------------------------------
(* Food *)

Food(w, x, y, nutrition, lifespan) ==
    LET id == w.count
        w1 == process([w EXCEPT !.count = @ + 1], id)
        obj == [ x |-> x, y |-> y, nutrition |-> nutrition, lifespan |-> lifespan,
                 current_lifespan |-> lifespan, decayed |-> FALSE, born |-> w.now,
                 nutrition0 |-> nutrition, halvings |-> 0, eaten |-> 0,
                 decays |-> 0 ]
    IN  [w1 EXCEPT !.food_objs = @ @@ (id :> obj)]

add_food(w, id) == [w EXCEPT !.food = Append(@, id)]

\* a variant that counts a decay for a food that is no longer in env.food
remove_decayed_food_unchecked(w, f) ==
    [w EXCEPT !.food = IF InSeq(f, @) THEN list_remove(@, f) ELSE @,
              !.decayed_food = @ + 1,
              !.food_objs[f].decays = @ + 1]

remove_decayed_food(w, f) ==
    IF InSeq(f, w.food)
    THEN [w EXCEPT !.food = list_remove(@, f),
                   !.decayed_food = @ + 1,
                   !.food_objs[f].decays = @ + 1]
    ELSE w

\* a variant that forgets the decayed flag
halves_now_again(fo) == 2 * fo.current_lifespan <= fo.lifespan

\* a variant that halves only below half of the lifespan
halves_now_strict(fo) == 2 * fo.current_lifespan < fo.lifespan /\ ~fo.decayed

\* current_lifespan <= lifespan / 2 and not decayed
halves_now(fo) == 2 * fo.current_lifespan <= fo.lifespan /\ ~fo.decayed

\* what follows the yield inside the loop of Food.lifetime
food_tick(w, f) ==
    LET fo == w.food_objs[f]
        w1 == IF halves_now(fo)
              THEN [w EXCEPT !.food_objs[f].decayed = TRUE,
                             !.food_objs[f].nutrition = @ \div 2,
                             !.food_objs[f].halvings = @ + 1]
              ELSE w
    IN  [w1 EXCEPT !.food_objs[f].current_lifespan = @ - 1]

\* a variant that waits once more when the countdown is at 0
food_loop_head_late(w, f) ==
    IF w.food_objs[f].current_lifespan >= 0
    THEN timeout(w, f, time_factor)
    ELSE process_ended(remove_decayed_food(w, f), f)

\* while self.current_lifespan > 0, and what follows the loop
food_loop_head(w, f) ==
    IF w.food_objs[f].current_lifespan > 0
    THEN timeout(w, f, time_factor)
    ELSE process_ended(remove_decayed_food(w, f), f)

food_lifetime(w, e) ==
    food_loop_head(IF e.kind = "Timeout" THEN food_tick(w, e.proc) ELSE w, e.proc)

----------------------------------------------------------------------------
(* Factories *)

FreeCells(w) ==
    { c \in (0..(w.grid_size - 1)) \X (0..(w.grid_size - 1)) :
          ~is_cell_occupied(w, c[1], c[2]) }

\* a variant that returns without an agent when no cell is free
generate_rabbit_gives_up(w) ==
    IF FreeCells(w) = {} THEN { w }
    ELSE { add_rabbit(Rabbit(w, c[1], c[2], scan_radius, base_hunger,
                             base_hunger_factor, hunger_fatigue, hunger_to_breed,
                             base_breed_timeout, breeding_reset_speed,
                             w.settings.base_speed), w.count)
           : c \in FreeCells(w) }

\* the reject-and-retry loop ends on any free cell, and never ends without one
generate_rabbit(w) ==
    IF FreeCells(w) = {} THEN { [w EXCEPT !.hung = TRUE] }
    ELSE { add_rabbit(Rabbit(w, c[1], c[2], scan_radius, base_hunger,
                             base_hunger_factor, hunger_fatigue, hunger_to_breed,
                             base_breed_timeout, breeding_reset_speed,
                             w.settings.base_speed), w.count)
           : c \in FreeCells(w) }

Nutritions == { n \in min_nutrition..max_nutrition : n % 2 = 0 }

generate_food(w) ==
    IF FreeCells(w) = {} THEN { [w EXCEPT !.hung = TRUE] }
    ELSE { add_food(Food(w, c[1], c[2], n, w.settings.lifespan), w.count)
           : c \in FreeCells(w), n \in Nutritions }

RECURSIVE generate_rabbits(_, _)
generate_rabbits(w, n) ==
    IF n = 0 \/ w.hung THEN { w }
    ELSE UNION { generate_rabbits(w1, n - 1) : w1 \in generate_rabbit(w) }

RECURSIVE generate_foods(_, _)
generate_foods(w, n) ==
    IF n = 0 \/ w.hung THEN { w }
    ELSE UNION { generate_foods(w1, n - 1) : w1 \in generate_food(w) }

RabbitFactory(w) ==
    LET id == w.count
        w1 == process([w EXCEPT !.count = @ + 1,
                                !.factories = @ @@ (id :> "RabbitFactory")], id)
    IN  generate_rabbits(w1, w.settings.start_rabbits_count)

FoodFactory(w) ==
    LET id == w.count
        w1 == process([w EXCEPT !.count = @ + 1,
                                !.factories = @ @@ (id :> "FoodFactory")], id)
    IN  generate_foods(w1, w.settings.start_food_count)

\* random.expovariate(rate / day_minutes) * time_factor, in whole ticks: a
\* short wait, and one that outlasts the run
Intervals == { 2, SimDuration + 1 }

\* a variant that waits for the next spawn whatever generate_new is
factory_loop_always(w, id, generate_new) ==
    IF w.hung THEN { w } ELSE { timeout(w, id, d) : d \in Intervals }

\* the loop head of a factory's lifetime: wait again, or return
factory_loop(w, id, generate_new) ==
    IF w.hung THEN { w }
    ELSE IF generate_new THEN { timeout(w, id, d) : d \in Intervals }
    ELSE { process_ended(w, id) }

rabbit_factory_lifetime(w, e) ==
    LET ws == IF e.kind = "Timeout" THEN generate_rabbit(w) ELSE { w }
    IN  UNION { factory_loop(w1, e.proc, w.settings.rabbit_generate_new) : w1 \in ws }

food_factory_lifetime(w, e) ==
    LET ws == IF e.kind = "Timeout" THEN generate_food(w) ELSE { w }
    IN  UNION { factory_loop(w1, e.proc, w.settings.food_generate_new) : w1 \in ws }

----------------------------------------------------------------------------
(* The main program and the step loop of SimulationVisualization.run *)

\* the entities the settings can add to the world, offspring aside: a factory
\* that generates can spawn twice before the run ends
Load(s) ==
    s.start_rabbits_count + s.start_food_count
        + (IF s.rabbit_generate_new THEN 2 ELSE 0)
        + (IF s.food_generate_new THEN 2 ELSE 0)

\* a setting that no entity of the run reads is kept at its least value
Settings ==
    { s \in [ base_speed : 1..MaxSpeed, lifespan : 1..MaxLifespan,
              start_rabbits_count : 0..MaxStartRabbits,
              start_food_count : 0..MaxStartFood,
              rabbit_generate_new : BOOLEAN, food_generate_new : BOOLEAN ] :
          /\ Load(s) <= MaxLoad
          /\ (s.start_food_count = 0 /\ ~s.food_generate_new) => s.lifespan = 1
          /\ (s.start_rabbits_count = 0 /\ ~s.rabbit_generate_new) => s.base_speed = 1 }

\* no method is called on its own
NoCall == [ op |-> "none", args |-> << >>, result |-> << >> ]

\* Collector() and Environment(grid_size, collector): nothing was created yet
NewWorld(s, g) ==
    [ settings |-> s, grid_size |-> g, count |-> 0, factories |-> << >>,
      rabbit_objs |-> << >>, food_objs |-> << >>, rabbits |-> << >>, food |-> << >>,
      removed_rabbits |-> 0, eaten_food |-> 0, decayed_food |-> 0, queue |-> << >>,
      now |-> 0,
      best_stats |-> [ lowest_hunger |-> Infinity, longest_life |-> 0,
                       max_breeding_count |-> 0, lowest_hunger_rabbit_id |-> -1,
                       longest_life_rabbit_id |-> -1,
                       max_breeding_count_rabbit_id |-> -1 ],
      current_step_rabbit_stats |->
          [ scan_radius |-> scan_radius, base_hunger |-> base_hunger,
            base_hunger_factor |-> base_hunger_factor,
            hunger_to_breed |-> hunger_to_breed, hunger_fatigue |-> hunger_fatigue,
            base_breed_timeout |-> base_breed_timeout,
            breeding_reset_speed |-> breeding_reset_speed,
            speed |-> s.base_speed ],
      hung |-> FALSE, ev |-> NoEv ]

\* the variables hold the world w
Holds(w) ==
    /\ settings = w.settings
    /\ grid_size = w.grid_size
    /\ count = w.count
    /\ factories = w.factories
    /\ rabbit_objs = w.rabbit_objs
    /\ food_objs = w.food_objs
    /\ rabbits = w.rabbits
    /\ food = w.food
    /\ removed_rabbits = w.removed_rabbits
    /\ eaten_food = w.eaten_food
    /\ decayed_food = w.decayed_food
    /\ queue = w.queue
    /\ now = w.now
    /\ best_stats = w.best_stats
    /\ current_step_rabbit_stats = w.current_step_rabbit_stats
    /\ hung = w.hung
    /\ ev = w.ev

Init ==
    /\ \E s \in Settings, g \in 1..MaxGrid : Holds(NewWorld(s, g))
    /\ pc = "RabbitFactory"
    /\ is_simulation_running = FALSE
    /\ error = "none"
    /\ call = NoCall

\* simulation.py: RabbitFactory(env)
NewRabbitFactory ==
    /\ pc = "RabbitFactory"
    /\ \E w \in RabbitFactory(World) :
          /\ Commit(w)
          /\ pc' = IF w.hung THEN "hung" ELSE "FoodFactory"
    /\ UNCHANGED << is_simulation_running, error, call >>

\* simulation.py: FoodFactory(env)
NewFoodFactory ==
    /\ pc = "FoodFactory"
    /\ \E w \in FoodFactory(World) :
          /\ Commit(w)
          /\ pc' = IF w.hung THEN "hung" ELSE "run"
    /\ UNCHANGED << is_simulation_running, error, call >>

\* visualization.run: is_simulation_running = True, then the loop
RunStart ==
    /\ pc = "run"
    /\ pc' = "loop"
    /\ is_simulation_running' = TRUE
    /\ UNCHANGED << settings, grid_size, count, factories, rabbit_objs, food_objs,
                    rabbits, food, removed_rabbits, eaten_food, decayed_food, queue,
                    now, best_stats, current_step_rabbit_stats, hung, ev, error, call >>

\* update: the test that draws the food f of env.food with the decayed image
drawn_decayed(w, f) == w.food_objs[f].current_lifespan < w.settings.lifespan \div 2

\* the while condition of run
loop_condition == now < SimDuration /\ is_simulation_running

\* a variant without the break
loop_break_never == FALSE

\* the break inside the loop
loop_break == ~settings.rabbit_generate_new /\ Len(rabbits) = 0

\* env.step() is reached, with an event to pop
CanStep ==
    /\ pc = "loop"
    /\ loop_condition
    /\ ~loop_break
    /\ count < MaxEntities
    /\ queue # << >>

\* env.step(): the first event is popped and the clock moves to its time
Popped == [World EXCEPT !.queue = Tail(queue), !.now = Head(queue).time, !.ev = NoEv]

Resumed(ws) ==
    /\ \E w \in ws :
          /\ Commit(w)
          /\ pc' = IF w.hung THEN "hung" ELSE pc
    /\ UNCHANGED << is_simulation_running, error, call >>

RabbitLifetime ==
    /\ CanStep
    /\ Head(queue).kind \in { "Initialize", "Timeout" }
    /\ Head(queue).proc \in DOMAIN rabbit_objs
    /\ Resumed(rabbit_lifetime(Popped, Head(queue)))

FoodLifetime ==
    /\ CanStep
    /\ Head(queue).kind \in { "Initialize", "Timeout" }
    /\ Head(queue).proc \in DOMAIN food_objs
    /\ Resumed({ food_lifetime(Popped, Head(queue)) })

RabbitFactoryLifetime ==
    /\ CanStep
    /\ Head(queue).kind \in { "Initialize", "Timeout" }
    /\ Head(queue).proc \in DOMAIN factories
    /\ factories[Head(queue).proc] = "RabbitFactory"
    /\ Resumed(rabbit_factory_lifetime(Popped, Head(queue)))

FoodFactoryLifetime ==
    /\ CanStep
    /\ Head(queue).kind \in { "Initialize", "Timeout" }
    /\ Head(queue).proc \in DOMAIN factories
    /\ factories[Head(queue).proc] = "FoodFactory"
    /\ Resumed(food_factory_lifetime(Popped, Head(queue)))

\* the event of a process that returned: nothing waits for it
ProcessEnded ==
    /\ CanStep
    /\ Head(queue).kind = "Ended"
    /\ Resumed({ Popped })

\* the event of a process that raised: env.step() raises the exception
ProcessFailed ==
    /\ CanStep
    /\ Head(queue).kind = "Failed"
    /\ Commit(Popped)
    /\ pc' = "crashed"
    /\ error' = "ValueError"
    /\ UNCHANGED << is_simulation_running, call >>

\* the loop of run ends: by its condition or by the break
RunExit ==
    /\ pc = "loop"
    /\ ~loop_condition \/ loop_break
    /\ pc' = "done"
    /\ UNCHANGED << settings, grid_size, count, factories, rabbit_objs, food_objs,
                    rabbits, food, removed_rabbits, eaten_food, decayed_food, queue,
                    now, best_stats, current_step_rabbit_stats, hung, ev,
                    is_simulation_running, error, call >>

Next ==
    \/ NewRabbitFactory
    \/ NewFoodFactory
    \/ RunStart
    \/ RabbitLifetime
    \/ FoodLifetime
    \/ RabbitFactoryLifetime
    \/ FoodFactoryLifetime
    \/ ProcessEnded
    \/ ProcessFailed
    \/ RunExit

Spec == Init /\ [][Next]_vars

\* the main program runs on: the loop of run takes its next step, and leaves
\* when its condition fails
FairSpec == Spec /\ WF_vars(Next)

----------------------------------------------------------------------------
(* Rabbit.breed on its own: two rabbits stand on one cell, the first has    *)
(* the second as its chosen partner and has just moved.  A parent's         *)
(* heritable traits all have one value, which an offspring of rabbits       *)
(* configured with MaxTrait - 1 for every trait can have.                   *)

ParentTraits == (MaxTrait - 2)..MaxTrait

Parent(w, v) ==
    add_rabbit(Rabbit(w, 0, 0, v, v, v, v, v, v, v, w.settings.base_speed), w.count)

\* the world at the call of start_breeding_process
Pair(w, a, b) ==
    [Parent(Parent(w, a), b) EXCEPT !.rabbit_objs[w.count].chosen_partner = w.count + 1,
                                    !.rabbit_objs[w.count].moving_towards = TRUE]

InitBreed ==
    /\ \E s \in Settings, a \in ParentTraits, b \in ParentTraits :
          /\ s.start_rabbits_count = 2 /\ s.start_food_count = 0
          /\ ~s.rabbit_generate_new /\ ~s.food_generate_new
          /\ Holds(Pair(NewWorld(s, MaxGrid), a, b))
    /\ pc = "breed"
    /\ is_simulation_running = FALSE
    /\ error = "none"
    /\ call = NoCall

BreedCall ==
    /\ pc = "breed"
    /\ \E tr \in Traits(World, rabbits[1], rabbits[2]) :
          Commit(start_breeding_process(World, rabbits[1], tr, TRUE))
    /\ pc' = "bred"
    /\ UNCHANGED << is_simulation_running, error, call >>

SpecBreed == InitBreed /\ [][BreedCall]_vars

----------------------------------------------------------------------------
(* adjust_move_if_outside_grid on its own, called as handle_movement calls  *)
(* it: with the cell a step (dx, dy) leads to from a cell (x, y) of the     *)
(* grid.  args holds << x, y, dx, dy >>.                                    *)

Steps == { -1, 0, 1 }

InitAdjust ==
    /\ \E s \in Settings, g \in 1..(MaxGrid + 1) :
          /\ Load(s) = 0
          /\ Holds(NewWorld(s, g))
          /\ \E x \in 0..(g - 1), y \in 0..(g - 1), dx \in Steps, dy \in Steps :
                call = [ op |-> "args", args |-> << x, y, dx, dy >>, result |-> << >> ]
    /\ pc = "call"
    /\ is_simulation_running = FALSE
    /\ error = "none"

AdjustCall ==
    /\ pc = "call"
    /\ call' = [ call EXCEPT !.op = "adjust_move_if_outside_grid",
                             !.result = adjusted(grid_size, call.args[1], call.args[2],
                                                 << call.args[3], call.args[4] >>) ]
    /\ pc' = "returned"
    /\ UNCHANGED << settings, grid_size, count, factories, rabbit_objs, food_objs,
                    rabbits, food, removed_rabbits, eaten_food, decayed_food, queue,
                    now, best_stats, current_step_rabbit_stats, hung, ev,
                    is_simulation_running, error >>

SpecAdjust == InitAdjust /\ [][AdjustCall]_vars

----------------------------------------------------------------------------
(* One pass of Rabbit.lifetime from a state of mid-run: the clock is at 0,  *)
(* every rabbit waits for its timeout, and the rabbit that is resumed first *)
(* is any of them.  Either three rabbits and no food, the resumed rabbit    *)
(* fed and off cooldown; or one rabbit, not fed or on cooldown, and two     *)
(* foods, the second of which may have been eaten already.                  *)

Cells(g) == (0..(g - 1)) \X (0..(g - 1))

\* a rabbit that can breed, one that is not fed, one on cooldown, a removed one
Conditions ==
    { [ hunger |-> hunger_to_breed - 1, breeding_timeout |-> 0, is_alive |-> TRUE ],
      [ hunger |-> hunger_to_breed + 1, breeding_timeout |-> 0, is_alive |-> TRUE ],
      [ hunger |-> hunger_to_breed - 1, breeding_timeout |-> 1, is_alive |-> TRUE ],
      [ hunger |-> hunger_fatigue, breeding_timeout |-> 0, is_alive |-> FALSE ] }

\* a rabbit of the configured traits in the condition st
Conditioned(w, id, st) ==
    IF st.is_alive
    THEN [w EXCEPT !.rabbit_objs[id].hunger = st.hunger,
                   !.rabbit_objs[id].breeding_timeout = st.breeding_timeout]
    ELSE remove_rabbit([w EXCEPT !.rabbit_objs[id].hunger = st.hunger], id)

Placed(w, c, st) ==
    Conditioned(add_rabbit(Rabbit(w, c[1], c[2], scan_radius, base_hunger,
                                  base_hunger_factor, hunger_fatigue, hunger_to_breed,
                                  base_breed_timeout, breeding_reset_speed,
                                  w.settings.base_speed), w.count), w.count, st)

\* a food of the configured nutrition, in env.food or eaten already
Laid(w, c, live) ==
    IF live
    THEN add_food(Food(w, c[1], c[2], max_nutrition, w.settings.lifespan), w.count)
    ELSE [Food(w, c[1], c[2], max_nutrition, w.settings.lifespan)
             EXCEPT !.food_objs[w.count].eaten = 1, !.eaten_food = @ + 1]

\* the agents ids wait for their timeout, in this order
RECURSIVE Yielded(_, _)
Yielded(w, ids) ==
    IF ids = << >> THEN w ELSE Yielded(timeout(w, Head(ids), time_factor), Tail(ids))

\* the ids 0 .. n - 1, the id first moved to the front
FirstOf(first, n) ==
    << first >> \o SelectSeq([ i \in 1..n |-> i - 1 ], LAMBDA i : i # first)

TickSettings ==
    { s \in Settings : /\ s.start_rabbits_count = MaxStartRabbits
                       /\ s.start_food_count = MaxStartFood
                       /\ ~s.rabbit_generate_new /\ ~s.food_generate_new
                       /\ s.lifespan = MaxLifespan }

\* a rabbit in the condition t can be chosen as a partner
Breedable(t) ==
    t.is_alive /\ t.hunger <= hunger_to_breed /\ t.breeding_timeout <= 0

\* three rabbits on the cells c in the conditions st; the rabbit first is
\* resumed first
ThreeRabbits(s, c, st, first) ==
    Yielded([Placed(Placed(Placed(NewWorld(s, MaxGrid + 1), c[1], st[1]), c[2], st[2]),
                    c[3], st[3]) EXCEPT !.queue = << >>], FirstOf(first, 3))

\* a rabbit on the cell c[1] in the condition st and two foods on c[2], c[3]
OneRabbitTwoFoods(s, c, st, live) ==
    Yielded([Laid(Laid(Placed(NewWorld(s, MaxGrid + 1), c[1], st), c[2], TRUE),
                  c[3], live) EXCEPT !.queue = << >>], << 0, 1, 2 >>)

InitTick ==
    /\ \E s \in TickSettings, c \in [ 1..3 -> Cells(MaxGrid + 1) ] :
          \/ \E first \in 0..2, st \in [ 1..3 -> Conditions ] :
                /\ Breedable(st[first + 1])
                /\ \E w \in { ThreeRabbits(s, c, st, first) } : Holds(w)
          \/ \E live \in BOOLEAN, st \in Conditions :
                /\ st.is_alive /\ ~Breedable(st)
                /\ c[2] # c[3]
                /\ \E w \in { OneRabbitTwoFoods(s, c, st, live) } : Holds(w)
    /\ pc = "loop"
    /\ is_simulation_running = TRUE
    /\ error = "none"
    /\ call = NoCall

\* the pass of the rabbit that is resumed first
FirstTick == ev = NoEv /\ RabbitLifetime

SpecTick == InitTick /\ [][FirstTick]_vars

----------------------------------------------------------------------------
(* Properties.  A state of a behaviour is a suspension point: every process *)
(* is waiting for an event of the queue.                                    *)

InGrid(o) == 0 <= o.x /\ o.x < grid_size /\ 0 <= o.y /\ o.y < grid_size

Dist(me, fo) == manhattan_distance_between(<< me.x, me.y >>, << fo.x, fo.y >>)

\* the step about to be taken runs one pass of the loop of rabbit r's lifetime
Ticks(r) ==
    /\ CanStep
    /\ Head(queue).proc = r
    /\ Head(queue).kind \in { "Initialize", "Timeout" }
    /\ rabbit_objs[r].is_alive

\* C1: at every suspension point every rabbit of env.rabbits and every food of
\* env.food has 0 <= x < grid_size and 0 <= y < grid_size, for every positive
\* grid_size.
C1_LiveEntitiesInsideGrid ==
    /\ \A i \in 1..Len(rabbits) : InGrid(rabbit_objs[rabbits[i]])
    /\ \A i \in 1..Len(food) : InGrid(food_objs[food[i]])

\* C2: a food that was consumed left env.food in the step of its consumption,
\* and its countdown, which keeps running, never removes it again and never
\* counts a decay for it: every food is counted at most once, in eaten_food or
\* in decayed_food, and the two counters count exactly those foods.
C2_ConsumedFoodNeverDecays ==
    /\ \A f \in DOMAIN food_objs :
          /\ food_objs[f].eaten + food_objs[f].decays <= 1
          /\ food_objs[f].eaten + food_objs[f].decays = 1 => ~InSeq(f, food)
    /\ eaten_food = Cardinality({ f \in DOMAIN food_objs : food_objs[f].eaten = 1 })
    /\ decayed_food = Cardinality({ f \in DOMAIN food_objs : food_objs[f].decays = 1 })

\* C2, its case: a consumed food whose countdown ran to its end afterwards
C2_ConsumedFoodOutlived ==
    \E f \in DOMAIN food_objs :
        /\ grid_size >= 2
        /\ food_objs[f].eaten = 1
        /\ food_objs[f].current_lifespan <= 0
        /\ ~InSeq(f, food)
        /\ decayed_food = 0

\* C3: a consumption of a food that is no longer in env.food raises no error
\* (and so leaves env.food, the rabbit's hunger and eaten_food as they were):
\* no resumed rabbit ends its pass with the ValueError of list.remove, and no
\* exception leaves env.step().
C3_AbsentFoodConsumptionIsNoOp == ev.op # "ValueError" /\ error = "none"

\* C4: a rabbit whose hunger reached hunger_fatigue in update_hunger is, at the
\* yield of that same pass, out of env.rabbits, not alive and counted once in
\* removed_rabbits; from then on its position and its hunger never change.
C4_StarvedRabbitRemovedOnce ==
    /\ [](/\ \A r \in DOMAIN rabbit_objs :
                /\ rabbit_objs[r].hunger >= rabbit_objs[r].hunger_fatigue
                      => ~rabbit_objs[r].is_alive
                /\ rabbit_objs[r].is_alive <=> InSeq(r, rabbits)
                /\ rabbit_objs[r].deaths = IF rabbit_objs[r].is_alive THEN 0 ELSE 1
          /\ removed_rabbits =
                Cardinality({ r \in DOMAIN rabbit_objs : ~rabbit_objs[r].is_alive }))
    /\ [][\A r \in DOMAIN rabbit_objs :
              ~rabbit_objs[r].is_alive =>
                  /\ ~rabbit_objs'[r].is_alive
                  /\ rabbit_objs'[r].x = rabbit_objs[r].x
                  /\ rabbit_objs'[r].y = rabbit_objs[r].y
                  /\ rabbit_objs'[r].hunger = rabbit_objs[r].hunger]_vars

\* C4, its case: a rabbit starved, and its life-cycle was resumed afterwards
C4_StarvedRabbitResumed ==
    \E r \in DOMAIN rabbit_objs :
        /\ grid_size >= 2
        /\ rabbit_objs[r].hunger >= rabbit_objs[r].hunger_fatigue
        /\ rabbit_objs[r].deaths = 1
        /\ removed_rabbits >= 1
        /\ rabbit_objs[r].late_reports = 1

\* C5: the life-cycle of a rabbit is never resumed after the rabbit removed
\* itself, and update_best_rabbit_stats / update_current_step_rabbit_stats are
\* called for living rabbits only.  (Stated for grids of two or more cells a
\* side, on which no rabbit leaves the grid.)
C5_NoReportAfterRemoval ==
    grid_size >= 2 =>
        /\ \A r \in DOMAIN rabbit_objs : rabbit_objs[r].late_reports = 0
        /\ ev.report # None => ev.report_alive

\* the only rabbit there is or was, r, is about to run a pass with speed 1 and
\* a food of env.food inside its scan box, the nearest one not on its own cell
SoleRabbitNearFood(r) ==
    /\ DOMAIN rabbit_objs = { r }
    /\ Ticks(r)
    /\ rabbit_objs[r].speed = 1
    /\ find_food(World, r) # << >>
    /\ Dist(rabbit_objs[r], food_objs[choose_food(World, r, find_food(World, r))]) > 0

\* the pass brings r nearer to the nearest food, and eats it on arrival
ApproachesFood(r) ==
    LET f == choose_food(World, r, find_food(World, r))
    IN  /\ Dist(rabbit_objs'[r], food_objs[f]) < Dist(rabbit_objs[r], food_objs[f])
        /\ Dist(rabbit_objs'[r], food_objs[f]) = 0 =>
              /\ ~InSeq(f, food')
              /\ eaten_food' = eaten_food + 1
              /\ ev'.op = "consume" /\ ev'.target = f

C7_HungerLaw ==
    [][\A r \in DOMAIN rabbit_objs :
          Ticks(r) =>
              rabbit_objs'[r].hunger =
                  rabbit_objs[r].hunger + rabbit_objs[r].base_hunger_factor
                      - (IF ev'.op = "consume" THEN ev'.nutrition ELSE 0)]_vars

\* C8, as stated: for every lifespan >= 1 a food that lived out its countdown
\* was halved exactly once, and a food is halved as soon as its remaining
\* lifespan is <= lifespan / 2.
C8_HalvedOnceForEveryLifespan ==
    \A f \in DOMAIN food_objs :
        /\ food_objs[f].halvings <= 1
        /\ food_objs[f].current_lifespan <= 0 => food_objs[f].halvings = 1

\* C8, amended: for every lifespan >= 2 the nutrition of a food is halved
\* exactly once, in the first tick of the food that begins with a remaining
\* lifespan <= lifespan / 2 (the tick that leaves it at most lifespan / 2 - 1),
\* and never again: a food that lived out its countdown was halved once.
C8_HalvedOnceFromLifespanTwo ==
    \A f \in DOMAIN food_objs :
        food_objs[f].lifespan >= 2 =>
            /\ food_objs[f].halvings <= 1
            /\ food_objs[f].decayed <=> food_objs[f].halvings = 1
            /\ food_objs[f].halvings = 1
                  <=> 2 * (food_objs[f].current_lifespan + 1) <= food_objs[f].lifespan
            /\ food_objs[f].nutrition =
                  IF food_objs[f].halvings = 1 THEN food_objs[f].nutrition0 \div 2
                  ELSE food_objs[f].nutrition0
            /\ food_objs[f].current_lifespan <= 0 => food_objs[f].halvings = 1

\* C8, its case: a food of lifespan >= 2 lived out its countdown, halved once
C8_FoodLivedOut ==
    \E f \in DOMAIN food_objs :
        /\ grid_size >= 2
        /\ food_objs[f].lifespan >= 2
        /\ food_objs[f].decays = 1
        /\ food_objs[f].halvings = 1
        /\ 2 * food_objs[f].nutrition = food_objs[f].nutrition0

\* C9: whenever Rabbit.breed runs, the initiating rabbit is fed with
\* breeding_timeout <= 0 and the partner is fed with breeding_timeout <= 0.
\* (Stated for grids of two or more cells a side.)
C9_BreedersFedAndOffCooldown ==
    grid_size >= 2 /\ ev.op = "breed" =>
        ev.fed /\ ev.bt <= 0 /\ ev.pfed /\ ev.pbt <= 0

\* C10: every breeding and every consumption acts on a target (chosen_partner,
\* nearest_food) that the rabbit selected in that same tick.  (Stated for grids
\* of two or more cells a side.)
C10_TargetChosenInSameTick ==
    grid_size >= 2 /\ ev.op \in { "breed", "consume" } => ev.fresh

\* C11: the partner of every breeding is in env.rabbits when Rabbit.breed runs:
\* no rabbit breeds with, or sets the breeding_timeout of, a removed rabbit.
\* (Stated for grids of two or more cells a side.)
C11_BreedingPartnerIsLive ==
    grid_size >= 2 /\ ev.op = "breed" => ev.palive

\* the trait t differs from the mean of a and b by at most a tenth of the mean
Within10(t, a, b) == 10 * Abs(2 * t - (a + b)) <= Abs(a + b)

\* C12: the offspring of every breeding has each heritable trait within 10% of
\* the arithmetic mean of its parents' values of that trait, and its speed is
\* the configured base_speed.
C12_OffspringNearParentsMean ==
    ev.op = "breed" =>
        /\ \A k \in DOMAIN NoTraits :
               Within10(rabbit_objs[count - 1][k], rabbit_objs[ev.self][k],
                        rabbit_objs[ev.target][k])
        /\ rabbit_objs[count - 1].speed = settings.base_speed

\* C12, its case: an offspring with one trait above and one below the mean
C12_OffspringMutated ==
    /\ ev.op = "breed"
    /\ rabbit_objs[ev.self].scan_radius # rabbit_objs[ev.target].scan_radius
    /\ 2 * rabbit_objs[count - 1].scan_radius
           > rabbit_objs[ev.self].scan_radius + rabbit_objs[ev.target].scan_radius
    /\ 2 * rabbit_objs[count - 1].hunger_fatigue
           < rabbit_objs[ev.self].hunger_fatigue + rabbit_objs[ev.target].hunger_fatigue

FactoryIds(class) == { i \in DOMAIN factories : factories[i] = class }

\* a factory of the class waits for a timeout
Waits(class) ==
    \E i \in 1..Len(queue) :
        queue[i].kind = "Timeout" /\ queue[i].proc \in FactoryIds(class)

\* the step about to be taken resumes the life-cycle of a factory of the class
Resumes(class) ==
    /\ CanStep
    /\ Head(queue).kind \in { "Initialize", "Timeout" }
    /\ Head(queue).proc \in FactoryIds(class)

\* the step leaves every entity, list and counter of the world as it was
SameWorld ==
    UNCHANGED << count, factories, rabbit_objs, food_objs, rabbits, food,
                 removed_rabbits, eaten_food, decayed_food, best_stats,
                 current_step_rabbit_stats >>

\* C13: a factory with generate_new = false, once constructed, has added
\* exactly its start count of agents to its list; afterwards it never waits for
\* a timeout, the run of its life-cycle changes nothing in the world, and no
\* further agent of its kind appears (but for the offspring of a breeding).
C13_IdleFactoryOnlySpawnsAtConstruction ==
    /\ [](/\ (pc = "FoodFactory" /\ ~settings.rabbit_generate_new) =>
                /\ Len(rabbits) = settings.start_rabbits_count
                /\ Cardinality(DOMAIN rabbit_objs) = settings.start_rabbits_count
          /\ (pc = "run" /\ ~settings.food_generate_new) =>
                Len(food) = settings.start_food_count
          /\ (pc \notin { "RabbitFactory", "FoodFactory", "hung" }
                  /\ ~settings.food_generate_new) =>
                Cardinality(DOMAIN food_objs) = settings.start_food_count
          /\ (pc # "hung" /\ ~settings.rabbit_generate_new) => ~Waits("RabbitFactory")
          /\ (pc # "hung" /\ ~settings.food_generate_new) => ~Waits("FoodFactory"))
    /\ [][/\ (Resumes("RabbitFactory") /\ ~settings.rabbit_generate_new) => SameWorld
          /\ (Resumes("FoodFactory") /\ ~settings.food_generate_new) => SameWorld
          /\ (pc \notin { "RabbitFactory", "hung" } /\ ~settings.rabbit_generate_new
                  /\ DOMAIN rabbit_objs' # DOMAIN rabbit_objs) => ev'.op = "breed"]_vars

\* C13, its case: both factories were constructed with generate_new = false and
\* a positive start count, and both life-cycles have run and returned
C13_IdleFactoriesReturned ==
    /\ grid_size >= 2
    /\ ~settings.rabbit_generate_new /\ ~settings.food_generate_new
    /\ settings.start_rabbits_count = 2 /\ settings.start_food_count = 1
    /\ Cardinality(DOMAIN food_objs) = 1
    /\ pc = "loop"
    /\ now >= 1
    /\ \A i \in 1..Len(queue) : queue[i].proc \notin DOMAIN factories

\* C14: with generate_new = false for a kind whose agents can die (here
\* base_hunger_factor = 1 > 0 and every lifespan is finite), the population of
\* that kind eventually is zero and stays zero, in every behaviour.  (Stated
\* for grids of two or more cells a side.)
C14_PopulationDiesOut ==
    /\ (grid_size >= 2 /\ ~settings.rabbit_generate_new) => <>[](Len(rabbits) = 0)
    /\ (grid_size >= 2 /\ ~settings.food_generate_new) => <>[](Len(food) = 0)

\* the coordinate c lies in [0, grid_size)
Inside(c) == 0 <= c /\ c < grid_size

\* C15: for every cell (x, y) of the grid and every step (dx, dy) with
\* components in {-1, 0, 1}, adjust_move_if_outside_grid returns dx negated
\* exactly when x + dx is outside [0, grid_size), and dy negated exactly when
\* y + dy is outside, each whatever the other axis does; at x = 0 the step
\* dx = -1 comes back as +1.
C15_ReflectsEachAxisAlone ==
    call.op = "adjust_move_if_outside_grid" =>
        /\ call.result[1] = IF Inside(call.args[1] + call.args[3])
                             THEN call.args[3] ELSE -call.args[3]
        /\ call.result[2] = IF Inside(call.args[2] + call.args[4])
                             THEN call.args[4] ELSE -call.args[4]
        /\ (call.args[1] = 0 /\ call.args[3] = -1) => call.result[1] = 1

\* C15, its case: at x = 0 the step (-1, 1) came back as (1, 1), y + 1 inside
C15_ReflectedAtLeftEdge ==
    /\ call.op = "adjust_move_if_outside_grid"
    /\ call.args = << 0, 0, -1, 1 >>
    /\ grid_size >= 2
    /\ call.result = << 1, 1 >>

\* the step about to be taken resumes rabbit r after its yield, and so calls
\* update_best_rabbit_stats(r) with r as it is now
Reported(r) ==
    /\ CanStep
    /\ Head(queue).kind = "Timeout"
    /\ Head(queue).proc = r

\* C16: over every sequence of calls of update_best_rabbit_stats,
\* lowest_hunger never grows, longest_life and max_breeding_count never
\* shrink, and a value and its owner id change only together, to the values
\* of a reported rabbit that is strictly better: a tie changes neither.
C16_BestStatsOnlyImprove ==
    [][/\ best_stats'.lowest_hunger <= best_stats.lowest_hunger
       /\ best_stats'.longest_life >= best_stats.longest_life
       /\ best_stats'.max_breeding_count >= best_stats.max_breeding_count
       /\ (\A r \in DOMAIN rabbit_objs : ~Reported(r)) => best_stats' = best_stats
       /\ \A r \in DOMAIN rabbit_objs :
             Reported(r) =>
                 /\ IF rabbit_objs[r].hunger < best_stats.lowest_hunger
                    THEN /\ best_stats'.lowest_hunger = rabbit_objs[r].hunger
                         /\ best_stats'.lowest_hunger_rabbit_id = r
                    ELSE /\ best_stats'.lowest_hunger = best_stats.lowest_hunger
                         /\ best_stats'.lowest_hunger_rabbit_id
                                = best_stats.lowest_hunger_rabbit_id
                 /\ IF rabbit_objs[r].age > best_stats.longest_life
                    THEN /\ best_stats'.longest_life = rabbit_objs[r].age
                         /\ best_stats'.longest_life_rabbit_id = r
                    ELSE /\ best_stats'.longest_life = best_stats.longest_life
                         /\ best_stats'.longest_life_rabbit_id
                                = best_stats.longest_life_rabbit_id
                 /\ IF rabbit_objs[r].breeding_count > best_stats.max_breeding_count
                    THEN /\ best_stats'.max_breeding_count = rabbit_objs[r].breeding_count
                         /\ best_stats'.max_breeding_count_rabbit_id = r
                    ELSE /\ best_stats'.max_breeding_count = best_stats.max_breeding_count
                         /\ best_stats'.max_breeding_count_rabbit_id
                                = best_stats.max_breeding_count_rabbit_id]_vars

\* C16, its case: a rabbit was reported whose hunger equalled the record held
\* by another rabbit, which still holds it
C16_TieKeptTheOwner ==
    /\ grid_size >= 2
    /\ ev.report # None /\ ev.report_alive /\ ev.op = "none"
    /\ rabbit_objs[ev.report].hunger - rabbit_objs[ev.report].base_hunger_factor
           = best_stats.lowest_hunger
    /\ best_stats.lowest_hunger_rabbit_id \notin { -1, ev.report }

\* the ids of all agents created so far
Agents == DOMAIN rabbit_objs \cup DOMAIN food_objs \cup DOMAIN factories

\* C17: every agent (rabbit, food, factory) got as id the number of agents
\* created before it: the ids in use are exactly 0 .. count - 1, each held by
\* one agent; a step gives its new agents the ids from count on, and no agent,
\* removed or not, loses its id to another.
C17_IdsCountCreations ==
    /\ [](/\ Agents = 0..(count - 1)
          /\ Cardinality(DOMAIN rabbit_objs) + Cardinality(DOMAIN food_objs)
                 + Cardinality(DOMAIN factories) = count
          /\ \A i \in DOMAIN rabbit_objs : \A j \in DOMAIN rabbit_objs :
                 i < j => rabbit_objs[i].born <= rabbit_objs[j].born)
    /\ [][/\ count' >= count
           /\ DOMAIN rabbit_objs \subseteq DOMAIN rabbit_objs'
           /\ DOMAIN food_objs \subseteq DOMAIN food_objs'
           /\ DOMAIN factories \subseteq DOMAIN factories'
           /\ Agents' \ Agents = count..(count' - 1)]_vars

\* C17, its case: a rabbit was created after another rabbit had been removed
C17_CreatedAfterRemoval ==
    /\ grid_size >= 2
    /\ ev.op = "breed"
    /\ ~ev.palive
    /\ removed_rabbits >= 1
    /\ count - 1 \in DOMAIN rabbit_objs
    /\ ev.target < count - 1

\* C18: the driver loop of SimulationVisualization.run(d) never moves the
\* clock past d: now <= d at every point of the run.
C18_ClockWithinDeadline == now <= SimDuration

\* C19: at the end of every tick body of a living rabbit, the rabbit's age is
\* the simulated time that passed since the rabbit was created.  (Stated for
\* grids of two or more cells a side.)
C19_AgeIsElapsedTime ==
    [][\A r \in DOMAIN rabbit_objs :
          (grid_size >= 2 /\ Ticks(r)) =>
              rabbit_objs'[r].age = now' - rabbit_objs[r].born]_vars

\* C20: with the configured base_hunger >= 0 no rabbit ever has a negative
\* hunger, and so every breeding leaves the rabbit that bred with a
\* breeding_timeout equal to its base_breed_timeout.  (Stated for grids of two
\* or more cells a side.)
C20_HungerNeverNegative ==
    grid_size >= 2 =>
        /\ \A r \in DOMAIN rabbit_objs : rabbit_objs[r].hunger >= 0
        /\ ev.op = "breed" =>
              rabbit_objs[ev.self].breeding_timeout
                  = rabbit_objs[ev.self].base_breed_timeout

\* C21: continuations due at the same simulated time are resumed in the order
\* in which they were scheduled: the continuation a step resumes was scheduled
\* no later than any other continuation that is due at that time, be it the
\* tick timeout of another agent or the life-cycle start of a new agent.
C21_SameTimeResumedInSchedulingOrder ==
    CanStep =>
        \A i \in 2..Len(queue) :
            queue[i].time = Head(queue).time => Head(queue).at <= queue[i].at

\* the agents whose life-cycle is registered and has not run its first body
Unstarted == { queue[i].proc : i \in { k \in 1..Len(queue) : queue[k].kind = "Initialize" } }

\* C22: an agent created at simulated time T has its life-cycle registered in
\* the step that creates it, due at T; no continuation due later than T is
\* ever in front of it, and the step that runs its first body runs it at T.
C22_NewAgentStartsAtCreationTime ==
    /\ [](\A i \in 1..Len(queue) :
              queue[i].kind = "Initialize" =>
                  /\ queue[i].time = queue[i].at
                  /\ queue[i].time = now
                  /\ queue[i].proc \in DOMAIN rabbit_objs =>
                        rabbit_objs[queue[i].proc].born = queue[i].time
                  /\ \A j \in 1..(i - 1) : queue[j].time <= queue[i].time)
    /\ [][/\ Agents' \ Agents \subseteq Unstarted'
           /\ \A a \in Unstarted \ Unstarted' : now' = now]_vars

\* C22, its case: a rabbit created in mid-run has just run its first body, at
\* the time of its creation, while a continuation due later was pending
C22_StartedAtCreationTime ==
    \E r \in DOMAIN rabbit_objs :
        /\ grid_size >= 2
        /\ rabbit_objs[r].born >= 1
        /\ now = rabbit_objs[r].born
        /\ r \notin Unstarted
        /\ \E i \in 1..Len(queue) :
              queue[i].proc = r /\ queue[i].kind = "Timeout" /\ queue[i].at = now
        /\ \E i \in 1..Len(queue) : queue[i].proc # r /\ queue[i].time > now

\* p is, for r, a rabbit of env.rabbits other than r, inside r's scan box, fed
\* and off cooldown
Eligible(r, p) ==
    /\ p # r
    /\ Abs(rabbit_objs[r].x - rabbit_objs[p].x) <= rabbit_objs[r].scan_radius
    /\ Abs(rabbit_objs[r].y - rabbit_objs[p].y) <= rabbit_objs[r].scan_radius
    /\ rabbit_objs[p].hunger <= rabbit_objs[p].hunger_to_breed
    /\ rabbit_objs[p].breeding_timeout <= 0

\* the first such rabbit in the order of env.rabbits, or None
FirstEligible(r) ==
    IF \E i \in 1..Len(rabbits) : Eligible(r, rabbits[i])
    THEN rabbits[CHOOSE i \in 1..Len(rabbits) :
                     /\ Eligible(r, rabbits[i])
                     /\ \A j \in 1..(i - 1) : ~Eligible(r, rabbits[j])]
    ELSE None

\* C23: a rabbit that is fed and off cooldown chooses as partner the first
\* rabbit, in the order of env.rabbits, that is not itself, lies within
\* scan_radius on both axes, is fed and has breeding_timeout <= 0; when there
\* is none it chooses no partner in that tick.
C23_FirstEligiblePartnerChosen ==
    [][\A r \in DOMAIN rabbit_objs :
          (Ticks(r) /\ is_fed(rabbit_objs[r]) /\ rabbit_objs[r].breeding_timeout <= 0)
              => /\ ev'.sought = "partner"
                 /\ ev'.chosen = FirstEligible(r)]_vars

\* C23, its case: the rabbit bred with the partner it chose, while another
\* rabbit that could breed stood on the partner's cell, later in env.rabbits
C23_ChoseFirstOfTwo ==
    /\ ev.op = "breed" /\ ev.fresh /\ ev.sought = "partner"
    /\ ev.chosen = ev.target
    /\ \E i \in 1..Len(rabbits) : \E j \in (i + 1)..Len(rabbits) :
          /\ rabbits[i] = ev.target
          /\ rabbits[j] # ev.self
          /\ rabbit_objs[rabbits[j]].x = rabbit_objs[ev.target].x
          /\ rabbit_objs[rabbits[j]].y = rabbit_objs[ev.target].y
          /\ rabbit_objs[rabbits[j]].born < now
          /\ can_breed_with(rabbit_objs[rabbits[j]])

\* the food of env.food at index i lies in the scan box of rabbit r
InBox(r, i) ==
    /\ Abs(rabbit_objs[r].x - food_objs[food[i]].x) <= rabbit_objs[r].scan_radius
    /\ Abs(rabbit_objs[r].y - food_objs[food[i]].y) <= rabbit_objs[r].scan_radius

\* the first food of env.food, among those in r's box, that no other food of
\* the box is nearer than; None when the box holds no food of env.food
NearestFood(r) ==
    IF \E i \in 1..Len(food) : InBox(r, i)
    THEN food[CHOOSE i \in 1..Len(food) :
                  /\ InBox(r, i)
                  /\ \A j \in 1..Len(food) : InBox(r, j) =>
                        \/ Dist(rabbit_objs[r], food_objs[food[i]])
                               < Dist(rabbit_objs[r], food_objs[food[j]])
                        \/ /\ Dist(rabbit_objs[r], food_objs[food[i]])
                                 = Dist(rabbit_objs[r], food_objs[food[j]])
                           /\ i <= j]
    ELSE None

\* C24: a rabbit that seeks food (not fed, or on cooldown) chooses a food of
\* env.food within scan_radius on both axes whose Manhattan distance to it is
\* the least among such foods, the first in list order on a tie; when env.food
\* has no food in the box, nearest_food is None after the scan.
C24_NearestLiveFoodChosen ==
    [][\A r \in DOMAIN rabbit_objs :
          (Ticks(r) /\ ~seeks_partner(rabbit_objs[r]))
              => /\ ev'.sought = "food"
                 /\ ev'.chosen = NearestFood(r)
                 /\ NearestFood(r) = None => rabbit_objs'[r].nearest_food = None]_vars

\* C24, its case: two foods of env.food were equally near and the earlier one
\* was chosen
C24_ChoseFirstOfTwoNearest ==
    /\ ev.sought = "food" /\ ev.op = "none"
    /\ \E i \in 1..Len(food) : \E j \in (i + 1)..Len(food) :
          /\ food[i] = ev.chosen
          /\ manhattan_distance_between(ev.origin,
                 << food_objs[food[i]].x, food_objs[food[i]].y >>)
               = manhattan_distance_between(ev.origin,
                 << food_objs[food[j]].x, food_objs[food[j]].y >>)
          /\ Abs(ev.origin[1] - food_objs[food[j]].x) <= scan_radius
          /\ Abs(ev.origin[2] - food_objs[food[j]].y) <= scan_radius

\* the rabbit or food with id c that a rabbit looking for a partner or for food
\* has chosen
TargetOf(c, kind) == IF kind = "partner" THEN rabbit_objs[c] ELSE food_objs[c]

\* the distance to t from the cell that is speed times the i-th direction away
DistAfter(me, t, i) ==
    manhattan_distance_between(<< me.x + move_locations[i][1] * me.speed,
                                  me.y + move_locations[i][2] * me.speed >>,
                               << t.x, t.y >>)

\* the first direction that gives the least distance, when that is an improvement
BestMove(me, t) ==
    IF \E i \in 1..Len(move_locations) : DistAfter(me, t, i) < Dist(me, t)
    THEN move_locations[CHOOSE i \in 1..Len(move_locations) :
             \A j \in 1..Len(move_locations) :
                 \/ DistAfter(me, t, i) < DistAfter(me, t, j)
                 \/ DistAfter(me, t, i) = DistAfter(me, t, j) /\ i <= j]
    ELSE << 0, 0 >>

\* C25: find_best_move_towards returns the first of the 8 directions, scaled
\* by speed, whose distance to the target is the least of the 8 and strictly
\* less than the current distance, and (0,0) when no direction improves; with
\* speed 1 and a target on another cell the applied unit step strictly
\* decreases the rabbit's Manhattan distance to the target's position.
C25_BestMoveApproachesTarget ==
    [][\A r \in DOMAIN rabbit_objs :
          (Ticks(r) /\ ev'.chosen # None)
              => /\ ev'.best_move = BestMove(rabbit_objs[r], TargetOf(ev'.chosen, ev'.sought))
                 /\ (/\ rabbit_objs[r].speed = 1
                     /\ Dist(rabbit_objs[r], TargetOf(ev'.chosen, ev'.sought)) > 0)
                        => Dist(rabbit_objs'[r], TargetOf(ev'.chosen, ev'.sought))
                             < Dist(rabbit_objs[r], TargetOf(ev'.chosen, ev'.sought))]_vars

\* base_breed_timeout - max(0, floor(max(0, -hunger) / 2)) of the rabbit o
Cooldown(o) ==
    o.base_breed_timeout
        - (IF (IF -o.hunger > 0 THEN -o.hunger ELSE 0) \div 2 > 0
           THEN (IF -o.hunger > 0 THEN -o.hunger ELSE 0) \div 2 ELSE 0)

\* C26: a breeding event sets the breeding_timeout of the initiator and of the
\* partner, each from its own base_breed_timeout and hunger, to
\* base_breed_timeout - max(0, floor(max(0, -hunger) / 2)), which is never
\* larger than that rabbit's base_breed_timeout.
C26_BothCooldownsSet ==
    [][((\E r \in DOMAIN rabbit_objs : Ticks(r)) /\ ev'.op = "breed") =>
          /\ rabbit_objs'[ev'.self].breeding_timeout = Cooldown(rabbit_objs[ev'.self])
          /\ rabbit_objs'[ev'.target].breeding_timeout = Cooldown(rabbit_objs[ev'.target])
          /\ rabbit_objs'[ev'.self].breeding_timeout
                <= rabbit_objs[ev'.self].base_breed_timeout
          /\ rabbit_objs'[ev'.target].breeding_timeout
                <= rabbit_objs[ev'.target].base_breed_timeout]_vars

\* C26, its case: a breeding event has given one of the two rabbits, whose
\* hunger was negative, a cooldown shorter than its base_breed_timeout
C26_CooldownReduced ==
    /\ ev.op = "breed"
    /\ ev.self # ev.target
    /\ \E k \in { ev.self, ev.target } :
          /\ rabbit_objs[k].breeding_timeout < rabbit_objs[k].base_breed_timeout
          /\ rabbit_objs[k].hunger <= 0
    /\ \E k \in { ev.self, ev.target } :
          rabbit_objs[k].breeding_timeout = rabbit_objs[k].base_breed_timeout

\* C27: a breeding event creates exactly one offspring on the cell that the
\* initiator and its partner share and appends it to env.rabbits, which grows
\* by exactly 1; the offspring has hunger equal to its inherited base_hunger,
\* breeding_timeout 0 and breeding_count 0; the initiator's breeding_count
\* grows by exactly 1, while the partner's breeding_count, both parents'
\* hunger and positions, the food and the counters removed_rabbits,
\* eaten_food and decayed_food are unchanged.
C27_BreedingFrame ==
    [][(pc = "breed" /\ ev'.op = "breed") =>
          /\ DOMAIN rabbit_objs' = DOMAIN rabbit_objs \cup { count }
          /\ count \notin DOMAIN rabbit_objs
          /\ rabbits' = Append(rabbits, count)
          /\ rabbit_objs'[count].x = rabbit_objs[ev'.self].x
          /\ rabbit_objs'[count].y = rabbit_objs[ev'.self].y
          /\ rabbit_objs'[count].x = rabbit_objs[ev'.target].x
          /\ rabbit_objs'[count].y = rabbit_objs[ev'.target].y
          /\ rabbit_objs'[count].hunger = rabbit_objs'[count].base_hunger
          /\ rabbit_objs'[count].breeding_timeout = 0
          /\ rabbit_objs'[count].breeding_count = 0
          /\ rabbit_objs'[ev'.self].breeding_count
                = rabbit_objs[ev'.self].breeding_count + 1
          /\ rabbit_objs'[ev'.target].breeding_count
                = rabbit_objs[ev'.target].breeding_count
          /\ \A k \in { ev'.self, ev'.target } :
                /\ rabbit_objs'[k].hunger = rabbit_objs[k].hunger
                /\ rabbit_objs'[k].x = rabbit_objs[k].x
                /\ rabbit_objs'[k].y = rabbit_objs[k].y
          /\ food' = food /\ food_objs' = food_objs
          /\ removed_rabbits' = removed_rabbits
          /\ eaten_food' = eaten_food
          /\ decayed_food' = decayed_food]_vars

\* C27, its case: the two rabbits have bred and their offspring is the third
\* rabbit of env.rabbits
C27_OffspringRegistered ==
    /\ pc = "bred" /\ ev.op = "breed"
    /\ rabbits = << ev.self, ev.target, count - 1 >>
    /\ rabbit_objs[ev.self].breeding_count = 1
    /\ rabbit_objs[ev.target].breeding_count = 0
    /\ rabbit_objs[count - 1].hunger = rabbit_objs[count - 1].base_hunger
    /\ rabbit_objs[count - 1].base_hunger # rabbit_objs[ev.self].base_hunger

\* the pass of rabbit r about to be taken consumes the food f
Consumes(r, f) ==
    /\ Ticks(r)
    /\ ev'.op = "consume" /\ ev'.self = r /\ ev'.target = f

\* C28: when a rabbit has reached the cell of its chosen food of env.food and
\* consumes it, exactly that food leaves env.food, the rabbit's hunger drops
\* by the food's current nutrition, eaten_food grows by exactly 1 and the
\* rabbit's nearest_food is cleared; env.rabbits, removed_rabbits,
\* decayed_food and every other food are unchanged.  (update_hunger, later in
\* the same pass, adds base_hunger_factor to the hunger.)
C28_ConsumptionFrame ==
    [][\A r \in DOMAIN rabbit_objs : \A f \in DOMAIN food_objs :
          Consumes(r, f) =>
              /\ InSeq(f, food)
              /\ rabbit_objs'[r].x = food_objs[f].x
              /\ rabbit_objs'[r].y = food_objs[f].y
              /\ food' = SelectSeq(food, LAMBDA g : g # f)
              /\ Len(food') = Len(food) - 1
              /\ rabbit_objs'[r].hunger - rabbit_objs[r].base_hunger_factor
                    = rabbit_objs[r].hunger - food_objs[f].nutrition
              /\ food_objs[f].nutrition
                    = IF food_objs[f].decayed THEN food_objs[f].nutrition0 \div 2
                      ELSE food_objs[f].nutrition0
              /\ eaten_food' = eaten_food + 1
              /\ rabbit_objs'[r].nearest_food = None
              /\ rabbits' = rabbits
              /\ DOMAIN rabbit_objs' = DOMAIN rabbit_objs
              /\ \A q \in DOMAIN rabbit_objs \ { r } : rabbit_objs'[q] = rabbit_objs[q]
              /\ removed_rabbits' = removed_rabbits
              /\ decayed_food' = decayed_food
              /\ DOMAIN food_objs' = DOMAIN food_objs
              /\ \A g \in DOMAIN food_objs \ { f } : food_objs'[g] = food_objs[g]]_vars

\* C28, its case: a rabbit has consumed a decayed food at its halved nutrition
C28_ConsumedDecayedFood ==
    /\ ev.op = "consume" /\ ev.report = ev.self
    /\ food_objs[ev.target].decayed
    /\ ev.nutrition < food_objs[ev.target].nutrition0
    /\ ~InSeq(ev.target, food)
    /\ rabbit_objs[ev.self].nearest_food = None

\* the step about to be taken resumes the life-cycle of food f after a timeout
FoodTicks(f) ==
    /\ CanStep
    /\ Head(queue).proc = f
    /\ Head(queue).kind = "Timeout"

\* the life-cycle of food f has ended: nothing of it is left to resume
LifeCycleEnded(q, f) ==
    \A i \in 1..Len(q) : q[i].proc = f => q[i].kind = "Ended"

\* C29: a food of lifespan L >= 1 that is never consumed stays in env.food for
\* exactly L ticks after its creation: it is in env.food until its L-th tick,
\* which comes L time steps after its creation; that tick removes it from
\* env.food once, adds exactly 1 to decayed_food and ends its life-cycle.
C29_FoodDecaysAfterLifespan ==
    /\ [](\A f \in DOMAIN food_objs :
            (food_objs[f].eaten = 0 /\ food_objs[f].lifespan >= 1) =>
                /\ food_objs[f].decays <= 1
                /\ InSeq(f, food) <=> food_objs[f].decays = 0
                /\ food_objs[f].decays = 0 =>
                      /\ food_objs[f].current_lifespan >= 1
                      /\ now <= food_objs[f].born + food_objs[f].lifespan * time_factor
                /\ food_objs[f].decays = 1 =>
                      /\ food_objs[f].current_lifespan = 0
                      /\ LifeCycleEnded(queue, f))
    /\ [][\A f \in DOMAIN food_objs :
            (FoodTicks(f) /\ food_objs'[f].eaten = 0) =>
                /\ now' = food_objs[f].born
                            + (food_objs[f].lifespan - food_objs[f].current_lifespan + 1)
                                  * time_factor
                /\ IF food_objs[f].current_lifespan = 1
                   THEN /\ now' = food_objs[f].born + food_objs[f].lifespan * time_factor
                        /\ food' = SelectSeq(food, LAMBDA g : g # f)
                        /\ Len(food') = Len(food) - 1
                        /\ decayed_food' = decayed_food + 1
                        /\ LifeCycleEnded(queue', f)
                   ELSE /\ food' = food
                        /\ InSeq(f, food')
                        /\ decayed_food' = decayed_food
                        /\ ~LifeCycleEnded(queue', f)]_vars

\* C29, its case: a food of lifespan 3 that was never consumed has decayed,
\* 3 time steps after its creation
C29_FoodDecayed ==
    \E f \in DOMAIN food_objs :
        /\ food_objs[f].eaten = 0 /\ food_objs[f].decays = 1
        /\ food_objs[f].lifespan = MaxLifespan - 1
        /\ now = food_objs[f].born + food_objs[f].lifespan * time_factor
        /\ ~InSeq(f, food)
        /\ decayed_food >= 1

\* the step about to be taken is taken by a factory: its construction, or a
\* resumption of its life-cycle
FactoryActs ==
    \/ pc \in { "RabbitFactory", "FoodFactory" }
    \/ CanStep /\ Head(queue).proc \in DOMAIN factories

\* the cell of the rabbit or food a after the step
CellAfter(a) ==
    IF a \in DOMAIN rabbit_objs' THEN << rabbit_objs'[a].x, rabbit_objs'[a].y >>
    ELSE << food_objs'[a].x, food_objs'[a].y >>

\* the ids of the rabbits and foods the step creates
Spawned ==
    ((DOMAIN rabbit_objs') \ DOMAIN rabbit_objs) \cup ((DOMAIN food_objs') \ DOMAIN food_objs)

\* C30: every agent a factory spawns, at its construction or later, is placed
\* on a cell inside the grid on which, when it is spawned, no rabbit of
\* env.rabbits and no food of env.food stands: none that was there before the
\* factory acted, and none that the factory spawned before it.
C30_SpawnedOnFreeCell ==
    [][FactoryActs =>
          \A a \in Spawned :
              /\ a \in { rabbits'[i] : i \in 1..Len(rabbits') }
                        \cup { food'[i] : i \in 1..Len(food') }
              /\ CellAfter(a)[1] \in 0..(grid_size - 1)
              /\ CellAfter(a)[2] \in 0..(grid_size - 1)
              /\ \A i \in 1..Len(rabbits) :
                    CellAfter(a) # << rabbit_objs[rabbits[i]].x, rabbit_objs[rabbits[i]].y >>
              /\ \A i \in 1..Len(food) :
                    CellAfter(a) # << food_objs[food[i]].x, food_objs[food[i]].y >>
              /\ \A b \in Spawned : b < a => CellAfter(b) # CellAfter(a)]_vars

\* C30, its case: the food factory has just spawned a food, later than its
\* construction, on a cell of the grid apart from the live rabbit's
C30_FoodSpawnedLater ==
    /\ CanStep
    /\ Head(queue).kind = "Initialize"
    /\ Head(queue).proc \in DOMAIN food_objs
    /\ InSeq(Head(queue).proc, food)
    /\ food_objs[Head(queue).proc].born > 0
    /\ Len(rabbits) >= 1
    /\ \A i \in 1..Len(rabbits) :
          << rabbit_objs[rabbits[i]].x, rabbit_objs[rabbits[i]].y >>
              # << food_objs[Head(queue).proc].x, food_objs[Head(queue).proc].y >>

\* the loop of run is about to call env.step()
AtStep == pc = "loop" /\ loop_condition /\ ~loop_break

\* C31: whenever the loop of SimulationVisualization.run reaches env.step(),
\* at least one event is pending, for every configuration of the start counts
\* and generate_new flags; with nothing left to resume the loop has stopped.
C31_StepFindsPendingEvent == AtStep => queue # << >>

\* C31, its case: the loop reaches env.step() with a single event pending,
\* after other events have been resumed
C31_LastEventPending ==
    /\ AtStep
    /\ Len(queue) = 1
    /\ now > 0

\* C32: at every point between two steps the number of foods ever created is
\* |env.food| + eaten_food + decayed_food; a food that left env.food never
\* returns to it and is counted in exactly one of the two counters, and neither
\* counter ever decreases.
C32_FoodAccounting ==
    /\ [](/\ Cardinality(DOMAIN food_objs) = Len(food) + eaten_food + decayed_food
          /\ \A f \in DOMAIN food_objs :
                (IF InSeq(f, food) THEN 0 ELSE 1)
                    = food_objs[f].eaten + food_objs[f].decays)
    /\ [][/\ eaten_food' >= eaten_food
          /\ decayed_food' >= decayed_food
          /\ \A f \in DOMAIN food_objs : ~InSeq(f, food) => ~InSeq(f, food')]_vars

\* C32, its case: two foods were created, one of them was eaten and the other
\* is still in env.food
C32_OneEatenOneLive ==
    /\ grid_size >= 2
    /\ Cardinality(DOMAIN food_objs) = 2
    /\ eaten_food = 1
    /\ Len(food) = 1

\* C33: at every point between two steps a rabbit is in env.rabbits exactly
\* when its is_alive flag is true, and the number of rabbits ever created is
\* |env.rabbits| + removed_rabbits; every step adds to removed_rabbits exactly
\* the number of rabbits that died in it, and a dead rabbit never dies again.
C33_RabbitAccounting ==
    /\ [](/\ \A r \in DOMAIN rabbit_objs :
                InSeq(r, rabbits) <=> rabbit_objs[r].is_alive
          /\ Cardinality(DOMAIN rabbit_objs) = Len(rabbits) + removed_rabbits)
    /\ [][/\ removed_rabbits' = removed_rabbits
                 + Cardinality({ r \in DOMAIN rabbit_objs :
                       rabbit_objs[r].is_alive /\ ~rabbit_objs'[r].is_alive })
          /\ \A r \in DOMAIN rabbit_objs :
                /\ ~rabbit_objs[r].is_alive => ~rabbit_objs'[r].is_alive
                /\ rabbit_objs'[r].deaths = IF rabbit_objs'[r].is_alive THEN 0 ELSE 1
          /\ \A r \in DOMAIN rabbit_objs' \ DOMAIN rabbit_objs :
                rabbit_objs'[r].is_alive]_vars

\* C33, its case: a rabbit created after time 0 is in env.rabbits while
\* another rabbit has died
C33_LaterRabbitLivesOtherDied ==
    /\ grid_size >= 2
    /\ removed_rabbits >= 1
    /\ \E r \in DOMAIN rabbit_objs :
          /\ rabbit_objs[r].born > 0
          /\ InSeq(r, rabbits)

\* k passes of update_hunger without a meal bring the rabbit me to its
\* hunger_fatigue
Starves(me, k) == me.base_hunger + k * me.base_hunger_factor >= me.hunger_fatigue

\* C34: a rabbit that never consumed a food and has base_hunger_factor > 0 is
\* in env.rabbits as long as none of the passes 1 .. n of its life-cycle it
\* has completed is a k with base_hunger + k * base_hunger_factor >=
\* hunger_fatigue, and is out of env.rabbits from the first such pass on,
\* which is its last pass: it lives for exactly the smallest such k passes,
\* whatever it did in them.
C34_StarvesAfterKTicks ==
    /\ [](\A r \in DOMAIN rabbit_objs :
            (rabbit_objs[r].meals = 0 /\ rabbit_objs[r].base_hunger_factor > 0) =>
                /\ InSeq(r, rabbits)
                      <=> \A k \in 1..rabbit_objs[r].ticks : ~Starves(rabbit_objs[r], k)
                /\ \A k \in 1..(rabbit_objs[r].ticks - 1) : ~Starves(rabbit_objs[r], k))
    /\ [][\A r \in DOMAIN rabbit_objs :
              /\ Ticks(r) /\ ev'.op # "ValueError"
                    => rabbit_objs'[r].ticks = rabbit_objs[r].ticks + 1
              /\ ~Ticks(r) => rabbit_objs'[r].ticks = rabbit_objs[r].ticks]_vars

\* C34, its case: a rabbit that never ate bred, was later chosen as a partner
\* or moved on, and left env.rabbits with its fourth pass
C34_StarvedBreeder ==
    \E r \in DOMAIN rabbit_objs :
        /\ grid_size >= 2
        /\ rabbit_objs[r].meals = 0
        /\ rabbit_objs[r].breeding_count >= 1
        /\ rabbit_objs[r].ticks = 4
        /\ Starves(rabbit_objs[r], 4) /\ ~Starves(rabbit_objs[r], 3)
        /\ ~InSeq(r, rabbits)

\* the step from the cell a to the cell b is one of the 8 directions
UnitStep(a, b) ==
    /\ b[1] - a[1] \in -1..1
    /\ b[2] - a[2] \in -1..1
    /\ a # b

\* C35: on a grid of two or more cells a side, every pass of a live rabbit's
\* life-cycle moves the rabbit by exactly one of the 8 unit steps, never by
\* (0,0): also when a target was chosen, when no direction improves and after
\* the reflection at the border, and whatever the rabbit's speed is.
C35_EveryPassMovesOneCell ==
    [][\A r \in DOMAIN rabbit_objs :
          (Ticks(r) /\ grid_size >= 2)
              => /\ UnitStep(<< rabbit_objs[r].x, rabbit_objs[r].y >>,
                             << rabbit_objs'[r].x, rabbit_objs'[r].y >>)
                 /\ ev'.origin = << rabbit_objs[r].x, rabbit_objs[r].y >>
                 /\ InGrid(rabbit_objs'[r])]_vars

\* C35, its case: a rabbit of speed 2 chose a target, no direction improved,
\* and the pass moved it to a neighbouring cell
C35_MovedWithoutBestMove ==
    /\ grid_size >= 2
    /\ ev.report # None
    /\ ev.chosen # None
    /\ ev.best_move = << 0, 0 >>
    /\ rabbit_objs[ev.report].speed = 2
    /\ UnitStep(ev.origin, << rabbit_objs[ev.report].x, rabbit_objs[ev.report].y >>)

\* the number of agents the factory's step is to spawn
Requested ==
    IF pc = "RabbitFactory" THEN settings.start_rabbits_count
    ELSE IF pc = "FoodFactory" THEN settings.start_food_count
    ELSE IF Head(queue).kind = "Timeout" THEN 1 ELSE 0

\* C36: the reject-and-retry placement of generate_rabbit and generate_food
\* ends, with the agent spawned, whenever a cell without a rabbit of
\* env.rabbits and without a food of env.food is left (every cell being drawn
\* again and again), and never ends when every cell is occupied: the step
\* that spawns never returns, and no process is resumed and nothing changes
\* ever after.
C36_PlacementEndsIffCellFree ==
    /\ [][FactoryActs =>
              IF Cardinality(FreeCells(World)) >= Requested
              THEN /\ ~hung' /\ pc' # "hung"
                   /\ Cardinality(Spawned) = Requested
              ELSE /\ hung' /\ pc' = "hung"
                   /\ Cardinality(Spawned) = Cardinality(FreeCells(World))
                   /\ FreeCells(World') = {}]_vars
    /\ [](hung <=> pc = "hung")
    /\ [][pc # "hung"]_vars

\* C36, its case: a factory resumed after time 0 found every cell occupied
\* and its placement never ended
C36_HungAfterStart ==
    /\ pc = "hung"
    /\ now > 0
    /\ FreeCells(World) = {}
    /\ Len(rabbits) + Len(food) >= 1

\* C37: a pass of a live rabbit that starts with breeding_timeout > 0 neither
\* looks for nor chooses a partner, and ends with breeding_timeout lower by
\* exactly breeding_reset_speed; in a pass that starts with breeding_timeout
\* <= 0, handle_movement leaves breeding_timeout as it was.  (Stated for grids
\* of two or more cells a side.)
C37_CooldownPassOnlyCountsDown ==
    [][\A r \in DOMAIN rabbit_objs :
          (Ticks(r) /\ grid_size >= 2) =>
              IF rabbit_objs[r].breeding_timeout > 0
              THEN /\ ev'.sought # "partner"
                   /\ rabbit_objs'[r].breeding_timeout
                         = rabbit_objs[r].breeding_timeout
                               - rabbit_objs[r].breeding_reset_speed
              ELSE IF ev'.op = "breed" /\ ev'.self = r
                   THEN ev'.bt = rabbit_objs[r].breeding_timeout
                   ELSE rabbit_objs'[r].breeding_timeout
                            = rabbit_objs[r].breeding_timeout]_vars

\* C38: at every point at which the loop of run can look at the world, every
\* food of env.food has its decayed flag set (its nutrition halved) exactly
\* when current_lifespan < lifespan // 2, the test by which update draws a
\* food as decayed.
C38_DecayedFlagMatchesImage ==
    \A i \in 1..Len(food) :
        /\ food_objs[food[i]].lifespan = settings.lifespan
        /\ food_objs[food[i]].decayed <=> drawn_decayed(World, food[i])
        /\ food_objs[food[i]].decayed <=> food_objs[food[i]].halvings = 1

\* C38, its case: the loop of run is about to draw a food of env.food whose
\* nutrition was halved, next to none or to foods that are not decayed
C38_DecayedFoodDrawn ==
    /\ pc = "loop"
    /\ loop_condition
    /\ \E i \in 1..Len(food) :
          /\ food_objs[food[i]].decayed
          /\ drawn_decayed(World, food[i])
          /\ 2 * food_objs[food[i]].nutrition = food_objs[food[i]].nutrition0

====
